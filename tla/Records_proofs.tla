--------------------------- MODULE Records_proofs ---------------------------
(***************************************************************************)
(* Machine-checked proofs about what is kept of calls that are over and    *)
(* told of them later (Records.tla): RecordsSpec => []RecordsHold, for any *)
(* sessions, calls, users, turns, scripts and claims.  First come lemmas   *)
(* about what a filter picks and about sums of groups, then for each of    *)
(* the four modules an inductive invariant and that what the module        *)
(* promises follows from it.                                               *)
(***************************************************************************)
EXTENDS Records, Choices_proofs

-----------------------------------------------------------------------------
(* What is picked, and sums of groups.                                        *)

\* An element more at the end is picked last, or not at all.
LEMMA PickedOfAppend ==
  ASSUME NEW V, NEW seq \in Seq(V), NEW e \in V, NEW I, I \subseteq DOMAIN seq
  PROVE  /\ Picked(Append(seq, e), I) = Picked(seq, I)
         /\ Picked(Append(seq, e), I \union {Len(seq) + 1}) = Append(Picked(seq, I), e)
<1> DEFINE l == Len(seq)
           t == Append(seq, e)
           J == I \union {l + 1}
           n == Cardinality(I)
<1>1. /\ l \in Nat /\ DOMAIN seq = 1..l
      /\ t \in Seq(V) /\ Len(t) = l + 1 /\ DOMAIN t = 1..(l + 1)
      /\ (\A i \in 1..l : t[i] = seq[i]) /\ t[l + 1] = e
  <2>1. t \in Seq(V) /\ Len(t) = l + 1 /\ (\A i \in 1..l : t[i] = seq[i]) /\ t[l + 1] = e
    BY AppendProperties
  <2> QED
    BY <2>1, LenProperties
<1>2. IsFiniteSet(I) /\ n \in Nat /\ l + 1 \notin I
  <2>1. IsFiniteSet(1..l)
    BY <1>1, FS_Interval
  <2>2. IsFiniteSet(I)
    BY <1>1, <2>1, FS_Subset
  <2> QED
    BY <1>1, <2>2, FS_CardinalityType
<1>3. IsFiniteSet(J) /\ Cardinality(J) = n + 1
  BY <1>2, FS_AddElement
<1>4. \A x \in I : Below(J, Ascending(J), x) = Below(I, Ascending(I), x)
  <2>1. \A x \in I : x \in 1..l
    BY <1>1
  <2> QED
    BY <1>1, <2>1 DEF Below, Ascending
<1>5. I \subseteq Int /\ J \subseteq Int
  BY <1>1
<1>6. StrictOrder(I, Ascending(I)) /\ StrictOrder(J, Ascending(J))
  BY <1>5, AscendingOrders
<1> DEFINE p == Ranked(I, Ascending(I))
           q == Ranked(J, Ascending(J))
<1>7. IsRanking(p, I, Ascending(I)) /\ IsRanking(q, J, Ascending(J))
  BY <1>2, <1>3, <1>6, RankedIsRanking
<1>8. Picked(t, I) = [k \in 1..n |-> t[p[k]]] /\ Picked(seq, I) = [k \in 1..n |-> seq[p[k]]]
      /\ Picked(t, J) = [k \in 1..(n + 1) |-> t[q[k]]]
  BY <1>3 DEF Picked
<1> HIDE DEF p, q, J, n, l, t
<1>9. \A x, y \in J : x # y =>
        Cardinality(Below(J, Ascending(J), x)) # Cardinality(Below(J, Ascending(J), y))
  BY <1>3, <1>6, BelowGrows
<1>10. /\ \A k \in 1..n : p[k] \in I /\ Cardinality(Below(I, Ascending(I), p[k])) = k - 1
       /\ \A k \in 1..(n + 1) : q[k] \in J /\ Cardinality(Below(J, Ascending(J), q[k])) = k - 1
  BY <1>3, <1>7 DEF IsRanking, n
<1>11. \A k \in 1..n : q[k] = p[k]
  <2> TAKE k \in 1..n
  <2>1. k \in 1..(n + 1) /\ p[k] \in I /\ p[k] \in J
    BY <1>2, <1>10 DEF J
  <2>2. Cardinality(Below(J, Ascending(J), p[k])) = k - 1
    BY <1>4, <1>10, <2>1
  <2> QED
    BY <1>9, <1>10, <2>1, <2>2
<1>12. q[n + 1] = l + 1
  <2>1. n + 1 \in 1..(n + 1) /\ l + 1 \in J
    BY <1>2 DEF J
  <2>2. Below(J, Ascending(J), l + 1) = I
    BY <1>1, <1>2 DEF Below, Ascending, J
  <2>3. Cardinality(Below(J, Ascending(J), l + 1)) = n /\ Cardinality(Below(J, Ascending(J), q[n + 1])) = n
    BY <1>2, <1>10, <2>1, <2>2 DEF n
  <2> QED
    BY <1>9, <1>10, <2>1, <2>3
<1>13. \A k \in 1..n : p[k] \in 1..l
  BY <1>1, <1>10 DEF l
<1>14. Picked(t, I) = Picked(seq, I)
  <2>1. \A k \in 1..n : t[p[k]] = seq[p[k]]
    BY <1>1, <1>13
  <2> QED
    BY <1>8, <2>1
<1>15. Picked(t, J) = Append(Picked(seq, I), e)
  <2>1. Picked(seq, I) \in Seq(V) /\ Len(Picked(seq, I)) = n
    BY PickedAreThere DEF n
  <2>2. /\ Append(Picked(seq, I), e) \in Seq(V) /\ Len(Append(Picked(seq, I), e)) = n + 1
        /\ \A k \in 1..n : Append(Picked(seq, I), e)[k] = Picked(seq, I)[k]
        /\ Append(Picked(seq, I), e)[n + 1] = e
    BY <2>1, AppendProperties
  <2>3. J \subseteq DOMAIN t
    BY <1>1 DEF J
  <2>4. Picked(t, J) \in Seq(V) /\ Len(Picked(t, J)) = n + 1
    BY <1>1, <1>3, <2>3, PickedAreThere
  <2>5. \A k \in 1..(n + 1) : Picked(t, J)[k] = Append(Picked(seq, I), e)[k]
    <3> TAKE k \in 1..(n + 1)
    <3>1. CASE k = n + 1
      <4>1. Picked(t, J)[k] = t[q[k]]
        BY <1>8
      <4> QED
        BY <1>1, <1>12, <2>2, <3>1, <4>1
    <3>2. CASE k # n + 1
      <4>1. k \in 1..n
        BY <1>2, <3>2
      <4>2. Picked(t, J)[k] = t[q[k]] /\ Picked(seq, I)[k] = seq[p[k]]
        BY <1>8, <4>1
      <4>3. t[q[k]] = seq[p[k]]
        BY <1>1, <1>11, <1>13, <4>1
      <4> QED
        BY <2>2, <4>1, <4>2, <4>3
    <3> QED
      BY <3>1, <3>2
  <2> QED
    BY <2>2, <2>4, <2>5, SeqEqual
<1> QED
  BY <1>14, <1>15 DEF t, J, l

-----------------------------------------------------------------------------
(* Sums of groups.                                                            *)

LEMMA SumOfAll ==
  ASSUME NEW f, Summed(f, DOMAIN f)
  PROVE  SumFunction(f) = SumFunctionOnSet(f, DOMAIN f) /\ SumFunction(f) \in Int
BY SumOfChosen DEF SumFunction

\* How many there are is a sum of ones.
LEMMA SumOfOnes ==
  ASSUME NEW S, IsFiniteSet(S), NEW f, \A x \in S : f[x] = 1
  PROVE  SumFunctionOnSet(f, S) = Cardinality(S)
<1>1. Summed(f, S)
  BY DEF Summed
<1>2. Cardinality(S) * 1 <= SumFunctionOnSet(f, S) /\ SumFunctionOnSet(f, S) <= Cardinality(S) * 1
  BY <1>1, SumIsBounded
<1>3. Cardinality(S) \in Nat /\ SumFunctionOnSet(f, S) \in Int
  BY <1>1, SumOfChosen, FS_CardinalityType
<1> QED
  BY <1>2, <1>3

\* How many are such is a sum of ones and zeros.
LEMMA SumOfSome ==
  ASSUME NEW S, IsFiniteSet(S), NEW A, A \subseteq S,
         NEW f, \A x \in S : f[x] = IF x \in A THEN 1 ELSE 0
  PROVE  SumFunctionOnSet(f, S) = Cardinality(A)
<1>1. IsFiniteSet(A) /\ IsFiniteSet(S \ A) /\ Cardinality(A) \in Nat /\ Cardinality(S \ A) \in Nat
  BY FS_Subset, FS_CardinalityType
<1>2. A \union (S \ A) = S /\ A \intersect (S \ A) = {}
  OBVIOUS
<1>3. Summed(f, S) /\ Summed(f, S \ A)
  BY <1>1 DEF Summed
<1>4. SumFunctionOnSet(f, S) = SumFunctionOnSet(f, A) + SumFunctionOnSet(f, S \ A)
  <2> DEFINE B == S \ A
  <2>1. A \union B = S /\ A \intersect B = {}
    OBVIOUS
  <2>2. SumFunctionOnSet(f, A \union B) = SumFunctionOnSet(f, A) + SumFunctionOnSet(f, B)
    <3>1. Summed(f, A \union B)
      BY <1>3, <2>1
    <3> HIDE DEF B
    <3> QED
      BY <2>1, <3>1, SumSplits
  <2> QED
    BY <2>1, <2>2
<1>5. SumFunctionOnSet(f, A) = Cardinality(A)
  BY <1>1, SumOfOnes
<1>6. SumFunctionOnSet(f, S \ A) = 0
  <2>1. \A x \in S \ A : 0 <= f[x] /\ f[x] <= 0
    OBVIOUS
  <2>2. Cardinality(S \ A) * 0 <= SumFunctionOnSet(f, S \ A)
        /\ SumFunctionOnSet(f, S \ A) <= Cardinality(S \ A) * 0
    BY <1>3, <2>1, SumIsBounded
  <2>3. SumFunctionOnSet(f, S \ A) \in Int
    BY <1>3, SumOfChosen
  <2> QED
    BY <1>1, <2>2, <2>3
<1> QED
  BY <1>1, <1>4, <1>5, <1>6

\* A sum of sums of two.
LEMMA SumsAdd ==
  ASSUME NEW S, NEW f, NEW g, Summed(f, S), Summed(g, S), NEW h, \A x \in S : h[x] = f[x] + g[x]
  PROVE  SumFunctionOnSet(h, S) = SumFunctionOnSet(f, S) + SumFunctionOnSet(g, S)
<1> DEFINE Wrong(T) ==
             SumFunctionOnSet(h, T) # SumFunctionOnSet(f, T) + SumFunctionOnSet(g, T)
           Bad == {n \in Nat : \E T \in SUBSET S : Cardinality(T) = n /\ Wrong(T)}
<1>0. Summed(h, S)
  BY DEF Summed
<1>1. \A T \in SUBSET S : /\ Summed(f, T) /\ Summed(g, T) /\ Summed(h, T)
                          /\ IsFiniteSet(T) /\ Cardinality(T) \in Nat
  BY <1>0, Removed DEF Summed
<1>2. ASSUME Bad # {} PROVE FALSE
  <2>1. PICK n \in Bad : \A m \in Bad : n <= m
    BY <1>2, LeastNumber
  <2>2. PICK T \in SUBSET S : Cardinality(T) = n /\ Wrong(T)
    BY <2>1
  <2>3. CASE T = {}
    <3>1. /\ SumFunctionOnSet(f, T) = 0 /\ SumFunctionOnSet(g, T) = 0
          /\ SumFunctionOnSet(h, T) = 0
      BY <1>1, <2>3, SumOfChosen
    <3> QED
      BY <2>2, <3>1
  <2>4. ASSUME NEW x \in T PROVE FALSE
    <3> DEFINE U == T \ {x}
    <3>1. U \in SUBSET S /\ Cardinality(U) = n - 1 /\ n - 1 \in Nat
      BY <1>1, <2>2, Removed
    <3>2. n - 1 \notin Bad
      BY <2>1, <3>1
    <3>3. ~Wrong(U)
      BY <3>1, <3>2
    <3>4. /\ SumFunctionOnSet(f, T) = f[x] + SumFunctionOnSet(f, U)
          /\ SumFunctionOnSet(g, T) = g[x] + SumFunctionOnSet(g, U)
          /\ SumFunctionOnSet(h, T) = h[x] + SumFunctionOnSet(h, U)
      BY <1>1, SumOfAny
    <3>5. /\ f[x] \in Int /\ g[x] \in Int /\ h[x] = f[x] + g[x]
          /\ SumFunctionOnSet(f, U) \in Int /\ SumFunctionOnSet(g, U) \in Int
      BY <1>1, <3>1, SumOfChosen DEF Summed
    <3> HIDE DEF U
    <3> QED
      BY <2>2, <3>3, <3>4, <3>5
  <2> QED
    BY <2>3, <2>4
<1>3. Cardinality(S) \in Nat
  BY <1>1
<1> QED
  BY <1>2, <1>3

\* What is summed by groups adds up to the whole.
LEMMA GroupsAddUp ==
  ASSUME NEW f, NEW S, Summed(f, S), NEW K, IsFiniteSet(K), NEW key, \A x \in S : key[x] \in K,
         NEW g, \A k \in K : g[k] = SumFunctionOnSet(f, {x \in S : key[x] = k})
  PROVE  Summed(g, K) /\ SumFunctionOnSet(g, K) = SumFunctionOnSet(f, S)
<1> DEFINE In(T) == {x \in S : key[x] \in T}
           Wrong(T) == SumFunctionOnSet(g, T) # SumFunctionOnSet(f, In(T))
           Bad == {n \in Nat : \E T \in SUBSET K : Cardinality(T) = n /\ Wrong(T)}
<1>1. \A A \in SUBSET S : Summed(f, A) /\ SumFunctionOnSet(f, A) \in Int
  <2> TAKE A \in SUBSET S
  <2>1. Summed(f, A)
    BY Removed DEF Summed
  <2> QED
    BY <2>1, SumOfChosen
<1>2. \A k \in K : g[k] \in Int
  BY <1>1
<1>3. \A T \in SUBSET K : Summed(g, T) /\ IsFiniteSet(T) /\ Cardinality(T) \in Nat
  BY <1>2, Removed DEF Summed
<1>4. ASSUME Bad # {} PROVE FALSE
  <2>1. PICK n \in Bad : \A m \in Bad : n <= m
    BY <1>4, LeastNumber
  <2>2. PICK T \in SUBSET K : Cardinality(T) = n /\ Wrong(T)
    BY <2>1
  <2>3. CASE T = {}
    <3>1. In(T) = {} /\ SumFunctionOnSet(g, T) = 0
      BY <1>3, <2>3, SumOfChosen
    <3>2. SumFunctionOnSet(f, In(T)) = 0
      BY <1>1, <3>1, SumOfChosen
    <3> QED
      BY <2>2, <3>1, <3>2
  <2>4. ASSUME NEW k \in T PROVE FALSE
    <3> DEFINE U == T \ {k}
               A == {x \in S : key[x] = k}
               B == In(U)
    <3>1. U \in SUBSET K /\ Cardinality(U) = n - 1 /\ n - 1 \in Nat
      BY <1>3, <2>2, Removed
    <3>2. n - 1 \notin Bad
      BY <2>1, <3>1
    <3>3. SumFunctionOnSet(g, U) = SumFunctionOnSet(f, B)
      BY <3>1, <3>2
    <3>4. SumFunctionOnSet(g, T) = g[k] + SumFunctionOnSet(g, U)
      BY <1>3, SumOfAny
    <3>5. g[k] = SumFunctionOnSet(f, A)
      OBVIOUS
    <3>6. In(T) = A \union B /\ A \intersect B = {} /\ A \union B \in SUBSET S
      BY <2>4
    <3> HIDE DEF A, B, U
    <3>7. SumFunctionOnSet(f, A \union B) = SumFunctionOnSet(f, A) + SumFunctionOnSet(f, B)
      BY <1>1, <3>6, SumSplits
    <3> QED
      BY <2>2, <3>3, <3>4, <3>5, <3>6, <3>7
  <2> QED
    BY <2>3, <2>4
<1>5. Cardinality(K) \in Nat /\ In(K) = S
  BY <1>3
<1>6. ~Wrong(K)
  BY <1>4, <1>5
<1> QED
  BY <1>3, <1>5, <1>6

LEMMA SumOfFour ==
  ASSUME NEW D, D = {"allow", "rewrite", "refuse", "escalate"}, NEW f, \A x \in D : f[x] \in Int
  PROVE  /\ Summed(f, D)
         /\ SumFunctionOnSet(f, D) = f["allow"] + f["rewrite"] + f["refuse"] + f["escalate"]
<1> DEFINE a == "allow"
           b == "rewrite"
           c == "refuse"
           d == "escalate"
<1>0. /\ a # b /\ a # c /\ a # d /\ b # c /\ b # d /\ c # d /\ D = {a, b, c, d}
      /\ f[a] \in Int /\ f[b] \in Int /\ f[c] \in Int /\ f[d] \in Int
  OBVIOUS
<1> HIDE DEF a, b, c, d
<1>1. /\ IsFiniteSet({a, b, c, d}) /\ IsFiniteSet({b, c, d}) /\ IsFiniteSet({c, d})
      /\ IsFiniteSet({d}) /\ IsFiniteSet({})
  <2>1. IsFiniteSet({}) /\ IsFiniteSet({d})
    BY FS_EmptySet, FS_Singleton
  <2>2. IsFiniteSet({d} \union {c})
    BY <2>1, FS_AddElement
  <2>3. IsFiniteSet(({d} \union {c}) \union {b})
    BY <2>2, FS_AddElement
  <2>4. IsFiniteSet((({d} \union {c}) \union {b}) \union {a})
    BY <2>3, FS_AddElement
  <2>5. /\ {d} \union {c} = {c, d} /\ ({d} \union {c}) \union {b} = {b, c, d}
        /\ (({d} \union {c}) \union {b}) \union {a} = {a, b, c, d}
    OBVIOUS
  <2> QED
    BY <2>1, <2>2, <2>3, <2>4, <2>5
<1>2. /\ Summed(f, {a, b, c, d}) /\ Summed(f, {b, c, d}) /\ Summed(f, {c, d}) /\ Summed(f, {d})
      /\ Summed(f, {})
  BY <1>0, <1>1 DEF Summed
<1>3. /\ {a, b, c, d} \ {a} = {b, c, d} /\ {b, c, d} \ {b} = {c, d} /\ {c, d} \ {c} = {d}
      /\ {d} \ {d} = {}
  BY <1>0
<1>4. SumFunctionOnSet(f, {a, b, c, d}) = f[a] + SumFunctionOnSet(f, {b, c, d})
  <2>1. \A x \in {a, b, c, d} :
          SumFunctionOnSet(f, {a, b, c, d}) = f[x] + SumFunctionOnSet(f, {a, b, c, d} \ {x})
    BY <1>2, SumOfAny
  <2>2. a \in {a, b, c, d}
    OBVIOUS
  <2> QED
    BY <1>3, <2>1, <2>2
<1>5. SumFunctionOnSet(f, {b, c, d}) = f[b] + SumFunctionOnSet(f, {c, d})
  BY <1>2, <1>3, SumOfAny
<1>6. SumFunctionOnSet(f, {c, d}) = f[c] + SumFunctionOnSet(f, {d})
  BY <1>2, <1>3, SumOfAny
<1>7. SumFunctionOnSet(f, {d}) = f[d] + SumFunctionOnSet(f, {})
  BY <1>2, <1>3, SumOfAny
<1>8. SumFunctionOnSet(f, {}) = 0
  BY <1>2, SumOfChosen
<1> QED
  BY <1>0, <1>2, <1>4, <1>5, <1>6, <1>7, <1>8 DEF a, b, c, d

\* The same, of groups that have a name.
Those(S, key, k) == {x \in S : key[x] = k}

LEMMA ThoseAddUp ==
  ASSUME NEW f, NEW S, Summed(f, S), NEW K, IsFiniteSet(K), NEW key, \A x \in S : key[x] \in K,
         NEW g, \A k \in K : g[k] = SumFunctionOnSet(f, Those(S, key, k))
  PROVE  Summed(g, K) /\ SumFunctionOnSet(g, K) = SumFunctionOnSet(f, S)
BY GroupsAddUp DEF Those

LEMMA ThoseAreAll ==
  ASSUME NEW S, IsFiniteSet(S), NEW K, IsFiniteSet(K), NEW key, \A x \in S : key[x] \in K,
         NEW g, \A k \in K : g[k] = Cardinality(Those(S, key, k))
  PROVE  Summed(g, K) /\ SumFunctionOnSet(g, K) = Cardinality(S)
<1> DEFINE f == [x \in S |-> 1]
<1>1. Summed(f, S)
  BY DEF Summed
<1>2. \A A \in SUBSET S : SumFunctionOnSet(f, A) = Cardinality(A)
  <2> TAKE A \in SUBSET S
  <2>1. IsFiniteSet(A) /\ \A x \in A : f[x] = 1
    BY FS_Subset
  <2> HIDE DEF f
  <2> QED
    BY <2>1, SumOfOnes
<1>3. \A k \in K : Those(S, key, k) \in SUBSET S
  BY DEF Those
<1>4. \A k \in K : g[k] = SumFunctionOnSet(f, Those(S, key, k))
  BY <1>2, <1>3
<1> HIDE DEF f
<1>5. Summed(g, K) /\ SumFunctionOnSet(g, K) = SumFunctionOnSet(f, S)
  BY <1>1, <1>4, ThoseAddUp
<1> QED
  BY <1>2, <1>5

LEMMA FourAreFinite ==
  ASSUME NEW a, NEW b, NEW c, NEW d
  PROVE  IsFiniteSet({a, b, c}) /\ IsFiniteSet({a, b, c, d})
<1>1. IsFiniteSet({a})
  BY FS_Singleton
<1>2. IsFiniteSet({a} \union {b})
  BY <1>1, FS_AddElement
<1>3. IsFiniteSet(({a} \union {b}) \union {c})
  BY <1>2, FS_AddElement
<1>4. IsFiniteSet((({a} \union {b}) \union {c}) \union {d})
  BY <1>3, FS_AddElement
<1>5. /\ {a, b, c} = ({a} \union {b}) \union {c}
      /\ {a, b, c, d} = (({a} \union {b}) \union {c}) \union {d}
  OBVIOUS
<1> QED
  BY <1>3, <1>4, <1>5

\* The keys that occur are finitely many.
LEMMA KeysAreFinite ==
  ASSUME NEW S, IsFiniteSet(S), NEW key, NEW K, K = {key[x] : x \in S}
  PROVE  IsFiniteSet(K)
<1> DEFINE f == [x \in S |-> key[x]]
<1>1. f \in Surjection(S, K)
  BY DEF Surjection
<1> HIDE DEF f
<1> QED
  BY <1>1, FS_Surjection

-----------------------------------------------------------------------------
(* Recordings and their exports.                                              *)

TapeStep == [Taped!Next]_tapeVars

\* The operators that an instance has of its own are the same.
LEMMA TapedSame ==
  /\ \A S : Taped!Cardinality(S) = Cardinality(S)
  /\ \A seq, I : Taped!Picked(seq, I) = Picked(seq, I)
BY DEF Taped!Cardinality, Cardinality, Taped!Picked, Picked, Taped!Ranked, Ranked,
  Taped!Ascending, Ascending

Fates == {"none", "started", "failed"}

\* What a session whose writes went on undisturbed has on disk, by the stage of its capture.
\* Of two files that are there, both are to be removed or none.
Undisturbed(s) ==
  /\ stage[s] # "done" => removal[s].wav = "none" /\ removal[s].meta = "none"
  /\ stage[s] \in {"new", "capturing", "open"} => ~wav[s] /\ meta[s] = "none"
  /\ stage[s] = "open" => sound[s]
  /\ stage[s] = "write" => wav[s] /\ sound[s] /\ meta[s] = "none"
  /\ stage[s] = "meta" => wav[s] = sound[s] /\ meta[s] = "none"
  /\ stage[s] = "done" =>
       /\ meta[s] = "audio" /\ ~wav[s] => removal[s].meta # "none"
       /\ meta[s] = "silent" => ~wav[s]
       /\ wav[s] /\ meta[s] = "none" => removal[s].wav # "none"
       /\ wav[s] /\ meta[s] # "none" => (removal[s].wav = "none" <=> removal[s].meta = "none")

AudioInv ==
  /\ stage \in [Sessions -> {"new", "capturing", "open", "write", "meta", "done"}]
  /\ sound \in [Sessions -> BOOLEAN] /\ wav \in [Sessions -> BOOLEAN]
  /\ meta \in [Sessions -> {"none", "silent", "audio"}]
  /\ old \in [Sessions -> BOOLEAN] /\ torn \in [Sessions -> BOOLEAN]
  /\ removal \in [Sessions -> [wav : Fates, meta : Fates]]
  /\ \A s \in Sessions : ~torn[s] => Undisturbed(s)

\* The fate of one file changes.
LEMMA OneFate ==
  ASSUME AudioInv, NEW s \in Sessions, NEW f \in {"wav", "meta"}, NEW fate \in Fates,
         removal' = [removal EXCEPT ![s][f] = fate]
  PROVE  /\ removal' \in [Sessions -> [wav : Fates, meta : Fates]]
         /\ removal'[s].wav = (IF f = "wav" THEN fate ELSE removal[s].wav)
         /\ removal'[s].meta = (IF f = "meta" THEN fate ELSE removal[s].meta)
         /\ \A r \in Sessions \ {s} : removal'[r] = removal[r]
<1>1. CASE f = "wav"
  <2>1. removal' = [removal EXCEPT ![s].wav = fate]
    BY <1>1
  <2> QED
    BY <1>1, <2>1 DEF AudioInv
<1>2. CASE f = "meta"
  <2>1. removal' = [removal EXCEPT ![s].meta = fate]
    BY <1>2
  <2> QED
    BY <1>2, <2>1 DEF AudioInv
<1> QED
  BY <1>1, <1>2

LEMMA AudioKeepsInv ==
  ASSUME AudioInv, TapeStep
  PROVE  AudioInv'
<1>1. ASSUME NEW s \in Sessions, Taped!StartCapture(s) PROVE AudioInv'
  BY <1>1 DEF Taped!StartCapture, AudioInv, Undisturbed
<1>2. ASSUME NEW s \in Sessions, Taped!AppendChunk(s) PROVE AudioInv'
  BY <1>2 DEF Taped!AppendChunk, AudioInv, Undisturbed
<1>3. ASSUME NEW s \in Sessions, Taped!StopCapture(s) PROVE AudioInv'
  BY <1>3 DEF Taped!StopCapture, AudioInv, Undisturbed
<1>4. ASSUME NEW s \in Sessions, Taped!OpenWav(s) PROVE AudioInv'
  BY <1>4 DEF Taped!OpenWav, AudioInv, Undisturbed
<1>5. ASSUME NEW s \in Sessions, Taped!WavWritten(s) PROVE AudioInv'
  BY <1>5 DEF Taped!WavWritten, AudioInv, Undisturbed
<1>6. ASSUME NEW s \in Sessions, Taped!WriteMeta(s) PROVE AudioInv'
  BY <1>6 DEF Taped!WriteMeta, AudioInv, Undisturbed
<1>7. ASSUME NEW s \in Sessions, Taped!WriteFails(s) PROVE AudioInv'
  BY <1>7 DEF Taped!WriteFails, AudioInv, Undisturbed
<1>8. ASSUME NEW s \in Sessions, Taped!DeleteRecording(s) PROVE AudioInv'
  <2> DEFINE r == [wav  |-> IF wav[s] THEN "started" ELSE removal[s].wav,
                   meta |-> IF meta[s] # "none" THEN "started" ELSE removal[s].meta]
  <2>1. removal' = [removal EXCEPT ![s] = r] /\ r \in [wav : Fates, meta : Fates]
    BY <1>8 DEF Taped!DeleteRecording, AudioInv, Fates
  <2>2. /\ removal' \in [Sessions -> [wav : Fates, meta : Fates]] /\ removal'[s] = r
        /\ \A o \in Sessions \ {s} : removal'[o] = removal[o]
    <3> HIDE DEF r
    <3> QED
      BY <2>1 DEF AudioInv
  <2>3. /\ torn' \in [Sessions -> BOOLEAN] /\ (torn'[s] <=> torn[s] \/ Taped!InFlight(s))
        /\ \A o \in Sessions \ {s} : torn'[o] = torn[o]
        /\ UNCHANGED <<stage, sound, wav, meta, old>>
    BY <1>8 DEF Taped!DeleteRecording, Taped!InFlight, AudioInv
  <2>4. ASSUME ~torn'[s] PROVE Undisturbed(s)'
    <3>1. stage[s] \in {"new", "capturing", "done"} /\ Undisturbed(s)
      BY <2>3, <2>4 DEF AudioInv, Taped!InFlight
    <3> QED
      BY <2>2, <2>3, <3>1 DEF AudioInv, Undisturbed
  <2>5. ASSUME NEW o \in Sessions, ~torn'[o] PROVE Undisturbed(o)'
    BY <2>2, <2>3, <2>4, <2>5 DEF AudioInv, Undisturbed
  <2> QED
    BY <2>2, <2>3, <2>5 DEF AudioInv
<1>9. ASSUME NEW s \in Sessions, Taped!Expire(s) PROVE AudioInv'
  BY <1>9 DEF Taped!Expire, AudioInv, Undisturbed
<1>10. ASSUME Taped!Crash PROVE AudioInv'
  <2>1. /\ stage' \in [Sessions -> {"done"}]
        /\ torn' = [s \in Sessions |-> torn[s] \/ Taped!InFlight(s)]
        /\ torn' \in [Sessions -> BOOLEAN]
    BY <1>10 DEF Taped!Crash, Taped!InFlight, AudioInv
  <2>2. ASSUME NEW s \in Sessions
        PROVE  /\ removal'[s] \in [wav : Fates, meta : Fates]
               /\ removal'[s].wav = "none" <=> removal[s].wav = "none"
               /\ removal'[s].meta = "none" <=> removal[s].meta = "none"
    BY <1>10 DEF Taped!Crash, Taped!Abandoned, AudioInv, Fates
  <2>3. removal' \in [Sessions -> [wav : Fates, meta : Fates]]
    <3>1. removal' = [s \in Sessions |-> Taped!Abandoned(removal[s])]
      BY <1>10 DEF Taped!Crash
    <3> QED
      BY <2>2, <3>1
  <2>4. ASSUME NEW s \in Sessions, ~torn'[s] PROVE Undisturbed(s)'
    <3>1. stage[s] \in {"new", "capturing", "done"} /\ ~torn[s] /\ stage'[s] = "done"
      BY <2>1, <2>4 DEF Taped!InFlight, AudioInv
    <3>2. UNCHANGED <<sound, wav, meta>> /\ Undisturbed(s)
      BY <1>10, <3>1 DEF Taped!Crash, AudioInv
    <3> QED
      BY <2>2, <3>1, <3>2 DEF Undisturbed
  <2> QED
    BY <1>10, <2>1, <2>3, <2>4 DEF Taped!Crash, AudioInv
<1>11. ASSUME NEW s \in Sessions, Taped!WavUnlinked(s) PROVE AudioInv'
  <2>1. removal' = [removal EXCEPT ![s]["wav"] = "none"]
    BY <1>11 DEF Taped!WavUnlinked
  <2>2. /\ removal' \in [Sessions -> [wav : Fates, meta : Fates]]
        /\ removal'[s].wav = "none" /\ removal'[s].meta = removal[s].meta
        /\ \A r \in Sessions \ {s} : removal'[r] = removal[r]
    BY <2>1, OneFate DEF Fates
  <2>3. /\ removal[s].wav = "started" /\ wav' = [wav EXCEPT ![s] = FALSE]
        /\ UNCHANGED <<stage, sound, meta, old, torn>>
    BY <1>11 DEF Taped!WavUnlinked
  <2>4. /\ wav' \in [Sessions -> BOOLEAN] /\ wav'[s] = FALSE
        /\ \A r \in Sessions \ {s} : wav'[r] = wav[r]
    BY <2>3 DEF AudioInv
  <2>5. ASSUME NEW r \in Sessions, ~torn'[r] PROVE Undisturbed(r)'
    <3>1. Undisturbed(r)
      BY <2>3, <2>5 DEF AudioInv
    <3>2. CASE r = s
      BY <2>2, <2>3, <2>4, <3>1, <3>2 DEF AudioInv, Undisturbed
    <3>3. CASE r # s
      BY <2>2, <2>3, <2>4, <3>1, <3>3 DEF Undisturbed
    <3> QED
      BY <3>2, <3>3
  <2> QED
    BY <2>2, <2>3, <2>4, <2>5 DEF AudioInv
<1>12. ASSUME NEW s \in Sessions, Taped!MetaUnlinked(s) PROVE AudioInv'
  <2>1. removal' = [removal EXCEPT ![s]["meta"] = "none"]
    BY <1>12 DEF Taped!MetaUnlinked
  <2>2. /\ removal' \in [Sessions -> [wav : Fates, meta : Fates]]
        /\ removal'[s].meta = "none" /\ removal'[s].wav = removal[s].wav
        /\ \A r \in Sessions \ {s} : removal'[r] = removal[r]
    BY <2>1, OneFate DEF Fates
  <2> QED
    BY <1>12, <2>2 DEF Taped!MetaUnlinked, AudioInv, Undisturbed
<1>13. ASSUME NEW s \in Sessions, NEW f \in {"wav", "meta"}, Taped!UnlinkFails(s, f)
       PROVE  AudioInv'
  <2>1. /\ removal' \in [Sessions -> [wav : Fates, meta : Fates]]
        /\ removal'[s].wav = (IF f = "wav" THEN "failed" ELSE removal[s].wav)
        /\ removal'[s].meta = (IF f = "meta" THEN "failed" ELSE removal[s].meta)
        /\ \A r \in Sessions \ {s} : removal'[r] = removal[r]
    <3>1. removal' = [removal EXCEPT ![s][f] = "failed"] /\ "failed" \in Fates
      BY <1>13 DEF Taped!UnlinkFails, Fates
    <3> QED
      BY <3>1, OneFate
  <2>2. IF f = "wav" THEN removal[s].wav = "started" ELSE removal[s].meta = "started"
    BY <1>13 DEF Taped!UnlinkFails
  <2> QED
    BY <1>13, <2>1, <2>2 DEF Taped!UnlinkFails, AudioInv, Undisturbed
<1>14. ASSUME Taped!TimelineNext \/ UNCHANGED tapeVars PROVE AudioInv'
  <2>1. UNCHANGED <<stage, sound, wav, meta, old, removal, torn>>
    BY <1>14 DEF Taped!TimelineNext, Taped!StartRecording, Taped!SessionEnd,
      Taped!HandleClose, Taped!HandleEvent, Taped!audioVars, tapeVars
  <2> QED
    BY <2>1 DEF AudioInv, Undisturbed
<1> QED
  BY <1>1, <1>2, <1>3, <1>4, <1>5, <1>6, <1>7, <1>8, <1>9, <1>10, <1>11, <1>12, <1>13, <1>14
  DEF TapeStep, Taped!Next, Taped!AudioNext, Taped!RouteDelete, Taped!PruneExpired

LEMMA FilesAlwaysAgree ==
  ASSUME AudioInv
  PROVE  Taped!FilesAgree
BY DEF AudioInv, Undisturbed, Taped!FilesAgree, Taped!InFlight

-----------------------------------------------------------------------------
\* The user said something that its sentiment is read from.
Said(r) ==
  \E i \in DOMAIN r.entries :
    r.entries[i].type = "user_transcript" /\ r.entries[i].final /\ r.entries[i].text

Finals(r) == {i \in DOMAIN r.entries : r.entries[i].final}

\* A recording, whose summary is that of its entries.
Counted(r) ==
  /\ r \in [entries : Seq(Taped!Events), turns : Int, decided : SUBSET Taped!Decisions,
            sentiment : BOOLEAN, open : BOOLEAN]
  /\ r.turns = Cardinality(Finals(r))
  /\ "escalate" \in r.decided <=> Taped!Escalated(r)

TimelineInv ==
  /\ Counted(buffer) /\ Counted(tapeFile)
  /\ readings \in BOOLEAN /\ cut \in BOOLEAN
  /\ ~over /\ Said(buffer) => readings
  /\ ~cut /\ Said(tapeFile) => tapeFile.sentiment

LEMMA NoneIsCounted == Counted(Taped!NoBuffer) /\ ~Said(Taped!NoBuffer)
<1>1. Taped!NoBuffer.entries = <<>> /\ <<>> \in Seq(Taped!Events) /\ DOMAIN <<>> = {}
  BY DEF Taped!NoBuffer
<1>2. Finals(Taped!NoBuffer) = {} /\ ~Taped!Escalated(Taped!NoBuffer) /\ ~Said(Taped!NoBuffer)
  BY <1>1 DEF Finals, Taped!Escalated, Said
<1>3. Cardinality({}) = 0
  BY FS_EmptySet
<1> QED
  <2> DEFINE b == Taped!NoBuffer
  <2>1. b \in [entries : Seq(Taped!Events), turns : Int, decided : SUBSET Taped!Decisions,
               sentiment : BOOLEAN, open : BOOLEAN]
    BY <1>1 DEF Taped!NoBuffer
  <2>2. b.turns = 0 /\ b.decided = {}
    BY DEF Taped!NoBuffer
  <2> HIDE DEF b
  <2>3. Counted(b) /\ ~Said(b)
    BY <1>2, <1>3, <2>1, <2>2 DEF Counted, b
  <2> QED
    BY <2>3 DEF b

LEMMA EventIsCounted ==
  ASSUME Counted(buffer), NEW e \in Taped!Events, NEW r, r = Taped!Add(e)
  PROVE  /\ Counted(r)
         /\ Said(r) <=> Said(buffer) \/ (e.type = "user_transcript" /\ e.final /\ e.text)
<1> DEFINE n == Len(buffer.entries)
<1>1. /\ buffer.entries \in Seq(Taped!Events) /\ n \in Nat /\ DOMAIN buffer.entries = 1..n
      /\ buffer.turns \in Int /\ buffer.decided \in SUBSET Taped!Decisions
  <2>1. buffer.entries \in Seq(Taped!Events)
    BY DEF Counted
  <2> QED
    BY <2>1, LenProperties DEF Counted
<1>2. /\ r.entries = Append(buffer.entries, e)
      /\ r.turns = IF e.final THEN buffer.turns + 1 ELSE buffer.turns
      /\ r.decided = IF e.decision \in Taped!Decisions THEN buffer.decided \union {e.decision}
                     ELSE buffer.decided
      /\ r \in [entries : Seq(Taped!Events), turns : Int, decided : SUBSET Taped!Decisions,
                sentiment : BOOLEAN, open : BOOLEAN]
  <2>1. Append(buffer.entries, e) \in Seq(Taped!Events)
    BY <1>1, AppendProperties
  <2> QED
    <3> DEFINE E == Append(buffer.entries, e)
               T == IF e.final THEN buffer.turns + 1 ELSE buffer.turns
               D == IF e.decision \in Taped!Decisions THEN buffer.decided \union {e.decision}
                    ELSE buffer.decided
    <3>1. r = [buffer EXCEPT !.entries = E, !.turns = T, !.decided = D]
      BY DEF Taped!Add
    <3>2. E \in Seq(Taped!Events) /\ T \in Int /\ D \in SUBSET Taped!Decisions
      BY <1>1, <2>1
    <3> HIDE DEF E, T, D
    <3>3. buffer \in [entries : Seq(Taped!Events), turns : Int, decided : SUBSET Taped!Decisions,
                      sentiment : BOOLEAN, open : BOOLEAN]
      BY DEF Counted
    <3>4. r.entries = E /\ r.turns = T /\ r.decided = D
      BY <3>1, <3>3
    <3>5. r \in [entries : Seq(Taped!Events), turns : Int, decided : SUBSET Taped!Decisions,
                 sentiment : BOOLEAN, open : BOOLEAN]
      BY <3>1, <3>2, <3>3
    <3> QED
      BY <3>4, <3>5 DEF E, T, D
<1>3. /\ DOMAIN r.entries = 1..(n + 1) /\ r.entries[n + 1] = e
      /\ \A i \in 1..n : r.entries[i] = buffer.entries[i]
  <2>1. /\ r.entries \in Seq(Taped!Events) /\ Len(r.entries) = n + 1 /\ r.entries[n + 1] = e
        /\ \A i \in 1..n : r.entries[i] = buffer.entries[i]
    BY <1>1, <1>2, AppendProperties
  <2> QED
    BY <2>1, LenProperties
<1> HIDE DEF n
<1>4. n + 1 \notin 1..n /\ 1..(n + 1) = (1..n) \union {n + 1}
  BY <1>1 DEF n
<1>5. e.final \in BOOLEAN /\ e.text \in BOOLEAN
  BY DEF Taped!Events
<1>6. Finals(r) = IF e.final THEN Finals(buffer) \union {n + 1} ELSE Finals(buffer)
  BY <1>1, <1>3, <1>4, <1>5 DEF Finals
<1>7. IsFiniteSet(Finals(buffer)) /\ n + 1 \notin Finals(buffer)
  <2>1. IsFiniteSet(1..n) /\ Finals(buffer) \subseteq 1..n
    <3>1. n \in Nat /\ DOMAIN buffer.entries = 1..n
      BY <1>1 DEF n
    <3>2. IsFiniteSet(1..n)
      BY <3>1, FS_Interval
    <3> QED
      BY <3>1, <3>2 DEF Finals
  <2> QED
    BY <1>4, <2>1, FS_Subset
<1>8. r.turns = Cardinality(Finals(r))
  <2>1. Cardinality(Finals(buffer) \union {n + 1}) = Cardinality(Finals(buffer)) + 1
    BY <1>7, FS_AddElement
  <2> QED
    BY <1>2, <1>6, <2>1 DEF Counted
<1>9. Taped!Escalated(r) <=> Taped!Escalated(buffer) \/ e.decision = "escalate"
  BY <1>1, <1>3, <1>4 DEF Taped!Escalated
<1>10. "escalate" \in r.decided <=> "escalate" \in buffer.decided \/ e.decision = "escalate"
  BY <1>2 DEF Taped!Decisions
<1>11. Said(r) <=> Said(buffer) \/ (e.type = "user_transcript" /\ e.final /\ e.text)
  BY <1>1, <1>3, <1>4 DEF Said
<1> QED
  BY <1>2, <1>8, <1>9, <1>10, <1>11 DEF Counted

LEMMA TimelineKeepsInv ==
  ASSUME TimelineInv, TapeStep
  PROVE  TimelineInv'
<1>1. ASSUME Taped!StartRecording PROVE TimelineInv'
  <2> DEFINE b == [Taped!NoBuffer EXCEPT !.open = TRUE]
  <2>1. /\ b \in [entries : Seq(Taped!Events), turns : Int, decided : SUBSET Taped!Decisions,
                  sentiment : BOOLEAN, open : BOOLEAN]
        /\ b.entries = Taped!NoBuffer.entries /\ b.turns = Taped!NoBuffer.turns
        /\ b.decided = Taped!NoBuffer.decided
    BY NoneIsCounted DEF Counted
  <2> HIDE DEF b
  <2>2. Counted(b) /\ ~Said(b)
    BY <2>1, NoneIsCounted DEF Counted, Finals, Taped!Escalated, Said
  <2>3. buffer' = b /\ UNCHANGED <<readings, over, tapeFile, cut>>
    BY <1>1 DEF Taped!StartRecording, b
  <2> QED
    BY <2>2, <2>3 DEF TimelineInv
<1>2. ASSUME NEW e \in Taped!Events, Taped!HandleEvent(e) PROVE TimelineInv'
  <2> DEFINE speaks == e.type = "user_transcript" /\ e.final /\ e.text
  <2>1. Counted(buffer') /\ (Said(buffer') => Said(buffer) \/ speaks)
    <3>1. buffer' = buffer \/ buffer' = Taped!Add(e)
      BY <1>2 DEF Taped!HandleEvent
    <3> QED
      BY <3>1, EventIsCounted DEF TimelineInv
  <2>2. readings' \in BOOLEAN /\ (readings' <=> readings \/ speaks)
    BY <1>2 DEF Taped!HandleEvent, Taped!Events, TimelineInv
  <2>3. UNCHANGED <<over, tapeFile, cut>>
    BY <1>2 DEF Taped!HandleEvent
  <2> QED
    BY <2>1, <2>2, <2>3 DEF TimelineInv
<1>3. ASSUME Taped!SessionEnd \/ Taped!HandleClose PROVE TimelineInv'
  <2> DEFINE last == [buffer EXCEPT !.sentiment = readings]
  <2>1. ASSUME NEW b, b \in {buffer, last, [buffer EXCEPT !.open = FALSE],
                            [last EXCEPT !.open = FALSE]}
        PROVE  Counted(b) /\ (Said(b) <=> Said(buffer))
    <3>1. /\ b \in [entries : Seq(Taped!Events), turns : Int, decided : SUBSET Taped!Decisions,
                    sentiment : BOOLEAN, open : BOOLEAN]
          /\ b.entries = buffer.entries /\ b.turns = buffer.turns /\ b.decided = buffer.decided
      BY <2>1 DEF TimelineInv, Counted
    <3> QED
      BY <3>1 DEF TimelineInv, Counted, Finals, Taped!Escalated, Said
  <2>2. CASE Taped!SessionEnd
    <3>1. UNCHANGED <<readings, over>> /\ ~over
      BY <2>2 DEF Taped!SessionEnd
    <3>2. CASE UNCHANGED <<buffer, tapeFile, cut>>
      BY <3>1, <3>2 DEF TimelineInv
    <3>3. CASE Taped!Flush(buffer) /\ cut' = TRUE
      <4>1. Counted(tapeFile') /\ buffer' = Taped!NoBuffer
        BY <2>1, <3>3 DEF Taped!Flush
      <4> QED
        BY <3>1, <3>3, <4>1, NoneIsCounted DEF TimelineInv
    <3> QED
      BY <2>2, <3>2, <3>3 DEF Taped!SessionEnd
  <2>3. CASE Taped!HandleClose
    <3>1. readings' = FALSE /\ over' = TRUE /\ ~over
      BY <2>3 DEF Taped!HandleClose
    <3>2. CASE Taped!Flush(last) /\ cut' = FALSE
      <4>1. tapeFile' = [last EXCEPT !.open = FALSE] /\ buffer' = Taped!NoBuffer
        BY <3>2 DEF Taped!Flush
      <4>2. tapeFile'.sentiment = readings
        BY <4>1 DEF TimelineInv, Counted
      <4>3. Counted(tapeFile') /\ (Said(tapeFile') <=> Said(buffer))
        BY <2>1, <4>1
      <4> QED
        BY <3>1, <3>2, <4>1, <4>2, <4>3, NoneIsCounted DEF TimelineInv
    <3>3. CASE buffer' \in {buffer, last} /\ UNCHANGED <<tapeFile, cut>>
      BY <2>1, <3>1, <3>3 DEF TimelineInv
    <3> QED
      BY <2>3, <3>2, <3>3 DEF Taped!HandleClose
  <2> QED
    BY <1>3, <2>2, <2>3
<1>4. ASSUME Taped!AudioNext \/ UNCHANGED tapeVars PROVE TimelineInv'
  <2>1. UNCHANGED <<buffer, readings, over, tapeFile, cut>>
    BY <1>4 DEF Taped!AudioNext, Taped!WavUnlinked, Taped!MetaUnlinked, Taped!UnlinkFails, Taped!StartCapture, Taped!AppendChunk, Taped!StopCapture,
      Taped!OpenWav, Taped!WavWritten, Taped!WriteMeta, Taped!WriteFails, Taped!RouteDelete,
      Taped!Expire, Taped!PruneExpired, Taped!DeleteRecording, Taped!Crash,
      Taped!timelineVars, tapeVars
  <2> QED
    BY <2>1 DEF TimelineInv
<1> QED
  BY <1>1, <1>2, <1>3, <1>4 DEF TapeStep, Taped!Next, Taped!TimelineNext

\* The thirds of a sequence leave nothing out and are as even as can be.
LEMMA ThirdsAddUp ==
  ASSUME NEW V, NEW items \in Seq(V), NEW thirds, thirds = Taped!SplitThirds(items)
  PROVE  /\ thirds[1] \o thirds[2] \o thirds[3] = items
         /\ Len(thirds[1]) >= Len(thirds[3]) /\ Len(thirds[1]) <= Len(thirds[3]) + 1
         /\ Len(thirds[2]) \in Len(thirds[3])..Len(thirds[1])
<1> DEFINE n == Len(items)
           a == (n + 2) \div 3
           b == (2 * n + 2) \div 3
<1>1. n \in Nat /\ \A i \in 1..n : items[i] \in V
  BY LenProperties, ElementOfSeq
<1>2. /\ a \in 0..n /\ b \in a..n
      /\ a >= n - b /\ a <= n - b + 1 /\ b - a >= n - b /\ b - a <= a
  BY <1>1
<1>3. /\ thirds[1] = SubSeq(items, 1, a) /\ thirds[2] = SubSeq(items, a + 1, b)
      /\ thirds[3] = SubSeq(items, b + 1, n)
  BY DEF Taped!SplitThirds
<1> HIDE DEF n, a, b
<1>4. a \in Nat /\ b \in Nat
  BY <1>1, <1>2
<1>5. Len(thirds[1]) = a
  <2>1. \A i \in 1..a : items[i] \in V
    BY <1>1, <1>2
  <2> QED
    BY <1>3, <1>4, <2>1, SubSeqProperties
<1>6. Len(thirds[2]) = b - a
  <2>1. \A i \in (a + 1)..b : items[i] \in V
    BY <1>1, <1>2
  <2>2. Len(SubSeq(items, a + 1, b)) = IF a + 1 <= b THEN b - (a + 1) + 1 ELSE 0
    BY <1>4, <2>1, SubSeqProperties
  <2> QED
    BY <1>2, <1>3, <1>4, <2>2
<1>7. Len(thirds[3]) = n - b
  <2>1. \A i \in (b + 1)..n : items[i] \in V
    BY <1>1, <1>2
  <2>2. Len(SubSeq(items, b + 1, n)) = IF b + 1 <= n THEN n - (b + 1) + 1 ELSE 0
    BY <1>1, <1>4, <2>1, SubSeqProperties
  <2> QED
    BY <1>1, <1>2, <1>3, <1>4, <2>2
<1>8. SubSeq(items, 1, a) \o SubSeq(items, a + 1, b) = SubSeq(items, 1, b)
  <2>1. 1 \in 1..(Len(items) + 1) /\ a \in (1 - 1)..Len(items) /\ b \in a..Len(items)
    BY <1>1, <1>2 DEF n
  <2> QED
    BY <2>1, ConcatAdjacentSubSeq
<1>9. SubSeq(items, 1, b) \o SubSeq(items, b + 1, n) = SubSeq(items, 1, n)
  <2>1. 1 \in 1..(Len(items) + 1) /\ b \in (1 - 1)..Len(items) /\ n \in b..Len(items)
    BY <1>1, <1>2 DEF n
  <2> QED
    BY <2>1, ConcatAdjacentSubSeq
<1>10. SubSeq(items, 1, n) = items
  BY SubSeqFull DEF n
<1>11. thirds[1] \o thirds[2] \o thirds[3] = items
  BY <1>3, <1>8, <1>9, <1>10
<1> QED
  BY <1>1, <1>2, <1>4, <1>5, <1>6, <1>7, <1>11

\* Of the entries that are picked, as many are such as among their places.
Such(seq, I, such) == {i \in I : seq[i] \in such}

LEMMA PickedAreSuch ==
  ASSUME NEW V, NEW seq \in Seq(V), NEW I, I \subseteq DOMAIN seq, NEW such,
         NEW got, got = Picked(seq, I)
  PROVE  Cardinality(Such(got, DOMAIN got, such)) = Cardinality(Such(seq, I, such))
<1> DEFINE A == {i \in I : seq[i] \in such}
           B == {k \in DOMAIN got : got[k] \in such}
<1>1. IsFiniteSet(I) /\ DOMAIN got = 1..Cardinality(I)
  BY PickedAreThere
<1>2. PICK q : Places(q, I) /\ got = [k \in 1..Cardinality(I) |-> seq[q[k]]]
  BY PickedInOrder
<1>3. B = {k \in 1..Cardinality(I) : q[k] \in A}
  BY <1>1, <1>2 DEF Places
<1> HIDE DEF B
<1>4. A \in SUBSET I
  OBVIOUS
<1> HIDE DEF A
<1>5. Cardinality(B) = Cardinality(A)
  BY <1>1, <1>2, <1>3, <1>4, PickedAreCounted
<1> QED
  BY <1>5 DEF A, B, Such

LEMMA ExportsAlwaysAgree ==
  ASSUME TimelineInv
  PROVE  Taped!ExportsAgree
<1> DEFINE r == tapeFile
           all == r.entries
           V == Taped!Events
           said == Taped!BuildTranscript(r)
           decided == Taped!BuildPolicyDecisions(r)
           policies == Taped!Places(r, {"policy.decision"})
           finals == Taped!Final(r, Taped!Speech)
<1>1. Counted(r) /\ all \in Seq(V) /\ (~cut /\ Said(r) => r.sentiment)
  BY DEF TimelineInv, Counted
<1>2. Len(all) \in Nat /\ DOMAIN all = 1..Len(all) /\ \A i \in DOMAIN all : all[i] \in V
  BY <1>1, LenProperties, ElementOfSeq
<1>3. IsFiniteSet(DOMAIN all)
  <2> DEFINE l == Len(all)
  <2>1. l \in Nat /\ DOMAIN all = 1..l
    BY <1>2
  <2> HIDE DEF l, all
  <2>2. 1 \in Int /\ l \in Int
    BY <2>1
  <2>3. IsFiniteSet(1..l)
    BY <2>2, FS_Interval, Zenon
  <2> QED
    BY <2>1, <2>3
<1>4. \A I : I \subseteq DOMAIN all => IsFiniteSet(I) /\ Cardinality(I) \in Nat
  BY <1>3, FS_Subset, FS_CardinalityType
<1> HIDE DEF V
<1>5. /\ policies \subseteq DOMAIN all /\ finals \subseteq DOMAIN all
      /\ finals \subseteq Finals(r)
  BY DEF Taped!Places, Taped!Final, Taped!Worded, Finals
<1>6. said = Picked(all, finals) /\ decided = Picked(all, policies)
  BY TapedSame DEF Taped!BuildTranscript, Taped!BuildPolicyDecisions
<1> HIDE DEF said, decided, policies, finals, all
<1>7. /\ said \in Seq(V) /\ Len(said) = Cardinality(finals) /\ DOMAIN said = 1..Len(said)
      /\ decided \in Seq(V) /\ Len(decided) = Cardinality(policies)
  BY <1>1, <1>5, <1>6, PickedAreThere
<1>8. Len(said) <= r.turns
  <2>1. IsFiniteSet(Finals(r)) /\ r.turns = Cardinality(Finals(r))
    <3>1. Finals(r) \subseteq DOMAIN all
      BY DEF Finals, all
    <3> QED
      BY <1>1, <1>4, <3>1 DEF Counted
  <2>2. Cardinality(finals) <= Cardinality(Finals(r))
    BY <1>5, <2>1, FS_Subset
  <2> QED
    BY <1>7, <2>1, <2>2
<1>9. Taped!Escalated(r) <=> Cardinality(Taped!Deciding(decided, "escalate")) > 0
  <2> DEFINE such == {e \in V : e.decision = "escalate"}
             A == {i \in policies : all[i] \in such}
  <2>1. Taped!Deciding(decided, "escalate") = {k \in DOMAIN decided : decided[k] \in such}
    <3>1. \A k \in DOMAIN decided : decided[k] \in V
      BY <1>7, LenProperties, ElementOfSeq
    <3> QED
      BY <3>1 DEF Taped!Deciding
  <2>2. Cardinality(Taped!Deciding(decided, "escalate")) = Cardinality(A)
    <3> HIDE DEF such
    <3>1. Cardinality(Such(decided, DOMAIN decided, such)) = Cardinality(Such(all, policies, such))
      <4>1. all \in Seq(V) /\ policies \subseteq DOMAIN all /\ decided = Picked(all, policies)
        BY <1>1, <1>5, <1>6
      <4> QED
        BY <4>1, PickedAreSuch
    <3> QED
      BY <2>1, <3>1 DEF Such
  <2>3. Taped!Escalated(r) <=> A # {}
    <3>1. \A i \in DOMAIN all : all[i].decision = "escalate" => i \in policies
      BY <1>2 DEF policies, Taped!Places, all, V, Taped!Events
    <3> QED
      BY <1>2, <1>5, <3>1 DEF Taped!Escalated, all
  <2>4. IsFiniteSet(A) /\ Cardinality(A) \in Nat /\ (Cardinality(A) = 0 <=> A = {})
    <3>1. A \subseteq DOMAIN all
      BY <1>5
    <3> HIDE DEF A
    <3> QED
      BY <1>4, <3>1, FS_EmptySet
  <2> QED
    BY <2>2, <2>3, <2>4
<1>10. ASSUME NEW t \in Taped!Speech
       PROVE  Taped!Cardinality(Taped!OfType(said, t)) <= Len(Taped!SearchHits(r, {t}))
  <2> DEFINE such == {e \in V : e.type = t}
             A == {i \in finals : all[i] \in such}
             those == Taped!Worded(r, {t})
  <2>1. Taped!OfType(said, t) = {k \in DOMAIN said : said[k] \in such}
    <3>1. \A k \in DOMAIN said : said[k] \in V
      BY <1>7, ElementOfSeq
    <3> QED
      BY <3>1 DEF Taped!OfType
  <2>2. Cardinality(Taped!OfType(said, t)) = Cardinality(A)
    <3> HIDE DEF such
    <3>1. Cardinality(Such(said, DOMAIN said, such)) = Cardinality(Such(all, finals, such))
      <4>1. all \in Seq(V) /\ finals \subseteq DOMAIN all /\ said = Picked(all, finals)
        BY <1>1, <1>5, <1>6
      <4> QED
        BY <4>1, PickedAreSuch
    <3> QED
      BY <2>1, <3>1 DEF Such
  <2>3. A \subseteq those /\ those \subseteq DOMAIN all
    BY DEF finals, all, Taped!Final, Taped!Worded, Taped!Places
  <2> HIDE DEF A, those
  <2>4. Len(Taped!SearchHits(r, {t})) = Cardinality(those)
    <3>1. Taped!SearchHits(r, {t}) = Picked(all, those)
      BY TapedSame DEF Taped!SearchHits, all, those
    <3> QED
      BY <1>1, <2>3, <3>1, PickedAreThere
  <2>5. Cardinality(A) <= Cardinality(those)
    BY <1>4, <2>3, FS_Subset
  <2> QED
    BY <2>2, <2>4, <2>5, TapedSame
<1>11. Taped!UserTurns(r) \in Seq(V)
  <2> DEFINE I == Taped!OfType(said, "user_transcript")
  <2>1. Taped!UserTurns(r) = Picked(said, I)
    BY TapedSame DEF Taped!UserTurns, said
  <2>2. I \subseteq DOMAIN said
    BY DEF Taped!OfType
  <2> HIDE DEF I
  <2> QED
    BY <1>7, <2>1, <2>2, PickedAreThere
<1>12. LET thirds == Taped!SplitThirds(Taped!UserTurns(r))
       IN  /\ thirds[1] \o thirds[2] \o thirds[3] = Taped!UserTurns(r)
           /\ Len(thirds[1]) >= Len(thirds[3]) /\ Len(thirds[1]) <= Len(thirds[3]) + 1
           /\ Len(thirds[2]) \in Len(thirds[3])..Len(thirds[1])
  BY <1>11, ThirdsAddUp
<1>13. /\ Taped!ExportSession(r).turns = Len(said)
       /\ Taped!ExportSession(r).decisions = Taped!Compliance(r).decisions
       /\ Taped!ExportSession(r).escalated = Taped!Escalated(r)
       /\ Taped!Compliance(r).escalations = Cardinality(Taped!Deciding(decided, "escalate"))
       /\ Taped!Compliance(r).sentiment = r.sentiment
  BY TapedSame DEF Taped!ExportSession, Taped!Compliance, said, decided
<1>14. Taped!Escalated(r) <=> "escalate" \in r.decided
  BY <1>1 DEF Counted
<1> QED
  <2> DEFINE x == Taped!ExportSession(r)
             c == Taped!Compliance(r)
  <2>1. /\ x.turns <= r.turns /\ x.decisions = c.decisions
        /\ x.escalated <=> "escalate" \in r.decided
        /\ x.escalated <=> c.escalations > 0
        /\ ~cut /\ Said(r) => c.sentiment
    BY <1>1, <1>8, <1>9, <1>13, <1>14
  <2>2. \A t \in Taped!Speech :
          Taped!Cardinality(Taped!OfType(said, t)) <= Len(Taped!SearchHits(r, {t}))
    BY <1>10
  <2> HIDE DEF x, c
  <2> QED
    BY <1>12, <2>1, <2>2 DEF Taped!ExportsAgree, Said, x, c, said

TapeInv == AudioInv /\ TimelineInv

LEMMA TapeBegins == ASSUME Taped!Init PROVE TapeInv
<1>1. AudioInv
  BY DEF Taped!Init, AudioInv, Undisturbed, Fates
<1>2. TimelineInv
  <2>1. buffer = Taped!NoBuffer /\ tapeFile = Taped!NoBuffer
        /\ readings = FALSE /\ cut = FALSE
    BY DEF Taped!Init
  <2> QED
    BY <2>1, NoneIsCounted DEF TimelineInv
<1> QED
  BY <1>1, <1>2 DEF TapeInv

LEMMA TapeKeepsInv == ASSUME TapeInv, TapeStep PROVE TapeInv'
BY AudioKeepsInv, TimelineKeepsInv DEF TapeInv

LEMMA RecordingsAreSound == ASSUME TapeInv PROVE Taped!RecordingsSound
BY FilesAlwaysAgree, ExportsAlwaysAgree DEF TapeInv, Taped!RecordingsSound

-----------------------------------------------------------------------------
(* Memories.                                                                  *)

MemoryStep == [Remember!Next]_memoryVars

LEMMA RememberSame ==
  /\ \A S : Remember!Cardinality(S) = Cardinality(S)
  /\ \A seq, I : Remember!Picked(seq, I) = Picked(seq, I)
  /\ \A f : Remember!Range(f) = Range(f)
BY DEF Remember!Cardinality, Cardinality, Remember!Picked, Picked, Remember!Ranked, Ranked,
  Remember!Ascending, Ascending, Remember!Range, Range

-----------------------------------------------------------------------------
(* The schema: the tables that are there and not recorded are those of a      *)
(* process between two statements, or of one that ended there.                *)

SchemaInv ==
  /\ recorded \in 0..Migrations /\ tables \in {recorded, recorded + 1} /\ tables <= Migrations
  /\ slipped \in BOOLEAN
  /\ instance = "creating" => tables = recorded + 1
  /\ instance \in {"none", "opening"} /\ ~slipped => tables = recorded
  /\ instance = "ready" => recorded = Migrations
  /\ instance = "broken" => slipped
  /\ instance \in {"none", "opening", "creating", "ready", "broken"}

LEMMA SchemaKeepsInv ==
  ASSUME Migrations \in Nat, SchemaInv, MemoryStep
  PROVE  SchemaInv'
<1>1. ASSUME Remember!SchemaNext PROVE SchemaInv'
  <2>1. CASE Remember!GetDatabase
    BY <2>1 DEF Remember!GetDatabase, SchemaInv
  <2>2. CASE Remember!CreateTables
    BY <2>2 DEF Remember!CreateTables, SchemaInv
  <2>3. CASE Remember!RecordMigration
    BY <2>3 DEF Remember!RecordMigration, SchemaInv
  <2>4. CASE Remember!Initialized
    BY <2>4 DEF Remember!Initialized, SchemaInv
  <2>5. CASE Remember!EndProcess
    BY <2>5 DEF Remember!EndProcess, SchemaInv
  <2> QED
    BY <1>1, <2>1, <2>2, <2>3, <2>4, <2>5 DEF Remember!SchemaNext
<1>2. ASSUME Remember!SessionsNext \/ Remember!FactsNext \/ UNCHANGED memoryVars
      PROVE  SchemaInv'
  <2>1. UNCHANGED <<tables, recorded, instance, slipped>>
    BY <1>2 DEF Remember!SessionsNext, Remember!SessionStart, Remember!SaveTurn,
      Remember!MessageEnd, Remember!CloseConnection, Remember!Crash, Remember!FactsNext,
      Remember!AddFact, Remember!DeleteEntry, Remember!ClearTenant, Remember!schemaVars,
      memoryVars
  <2> QED
    BY <2>1 DEF SchemaInv
<1> QED
  BY <1>1, <1>2 DEF MemoryStep, Remember!Next

-----------------------------------------------------------------------------
(* Facts: each is of one tenant.                                              *)

FactsInv ==
  /\ facts \in [Customers -> Seq(Remembered)]
  /\ \A t, u \in Customers : t # u => Range(facts[t]) \intersect Range(facts[u]) = {}

LEMMA FactsKeepInv ==
  ASSUME FactsInv, MemoryStep
  PROVE  FactsInv'
<1>1. ASSUME NEW t \in Customers, NEW told \in Seq(Remembered), facts' = [facts EXCEPT ![t] = told],
             \A u \in Customers : u # t => Range(told) \intersect Range(facts[u]) = {}
      PROVE  FactsInv'
  BY <1>1 DEF FactsInv
<1>2. ASSUME NEW t \in Customers, NEW f \in Remembered, Remember!AddFact(t, f) PROVE FactsInv'
  <2>1. facts[t] \in Seq(Remembered)
    BY DEF FactsInv
  <2>2. Append(facts[t], f) \in Seq(Remembered)
    BY <2>1, AppendProperties
  <2>3. Range(Append(facts[t], f)) = Range(facts[t]) \union {f}
    <3> DEFINE n == Len(facts[t])
    <3>1. n \in Nat /\ DOMAIN facts[t] = 1..n /\ DOMAIN Append(facts[t], f) = 1..(n + 1)
          /\ (\A i \in 1..n : Append(facts[t], f)[i] = facts[t][i])
          /\ Append(facts[t], f)[n + 1] = f
      BY <2>1, <2>2, AppendProperties, LenProperties
    <3> HIDE DEF n
    <3>2. n + 1 \in 1..(n + 1) /\ \A i \in 1..(n + 1) : i \in 1..n \/ i = n + 1
      BY <3>1
    <3> QED
      BY <3>1, <3>2 DEF Range
  <2>4. \A u \in Customers : f \notin Range(facts[u])
    BY <1>2, RememberSame DEF Remember!AddFact
  <2>5. \A u \in Customers : u # t => Range(Append(facts[t], f)) \intersect Range(facts[u]) = {}
    BY <2>3, <2>4 DEF FactsInv
  <2>6. facts' = [facts EXCEPT ![t] = Append(facts[t], f)]
    BY <1>2 DEF Remember!AddFact
  <2> QED
    BY <1>1, <2>2, <2>5, <2>6
<1>3. ASSUME NEW t \in Customers, NEW f \in Remembered, Remember!DeleteEntry(t, f) PROVE FactsInv'
  <2> DEFINE I == {i \in DOMAIN facts[t] : facts[t][i] # f}
             left == Picked(facts[t], I)
  <2>1. facts[t] \in Seq(Remembered) /\ I \subseteq DOMAIN facts[t]
    BY DEF FactsInv
  <2>2. facts' = [facts EXCEPT ![t] = left]
    BY <1>3, RememberSame DEF Remember!DeleteEntry
  <2> HIDE DEF I
  <2>3. left \in Seq(Remembered)
    BY <2>1, PickedAreThere
  <2>4. Range(left) \subseteq Range(facts[t])
    BY <2>1, PickedAreOf
  <2> HIDE DEF left
  <2>5. \A u \in Customers : u # t => Range(left) \intersect Range(facts[u]) = {}
    BY <2>4 DEF FactsInv
  <2> QED
    BY <1>1, <2>2, <2>3, <2>5
<1>4. ASSUME NEW t \in Customers, Remember!ClearTenant(t) PROVE FactsInv'
  <2>1. <<>> \in Seq(Remembered) /\ Range(<<>>) = {}
    BY DEF Range
  <2> QED
    BY <1>1, <1>4, <2>1 DEF Remember!ClearTenant
<1>5. ASSUME Remember!SessionsNext \/ Remember!SchemaNext \/ UNCHANGED memoryVars
      PROVE  FactsInv'
  <2>1. UNCHANGED facts
    BY <1>5 DEF Remember!SessionsNext, Remember!SessionStart, Remember!SaveTurn,
      Remember!MessageEnd, Remember!CloseConnection, Remember!Crash, Remember!SchemaNext,
      Remember!GetDatabase, Remember!CreateTables, Remember!RecordMigration,
      Remember!Initialized, Remember!EndProcess, memoryVars
  <2> QED
    BY <2>1 DEF FactsInv
<1> QED
  BY <1>2, <1>3, <1>4, <1>5 DEF MemoryStep, Remember!Next, Remember!FactsNext

LEMMA FactsStayOwn ==
  ASSUME FactsInv, Recalled \in Nat \ {0}
  PROVE  Remember!FactsAreOwn
<1> SUFFICES ASSUME NEW t \in Customers, NEW u \in Customers
             PROVE  /\ t # u => Range(Remember!ContextString(t)) \intersect Range(facts[u]) = {}
                    /\ facts[t] # <<>> =>
                         Remember!ContextString(t)[1] = facts[t][Len(facts[t])]
  BY RememberSame DEF Remember!FactsAreOwn
<1> DEFINE n == Len(facts[t])
           m == IF n < Recalled THEN n ELSE Recalled
<1>1. facts[t] \in Seq(Remembered)
  BY DEF FactsInv
<1>2. n \in Nat /\ DOMAIN facts[t] = 1..n /\ (facts[t] # <<>> => n > 0)
  BY <1>1, LenProperties, EmptySeq
<1>3. Remember!ContextString(t) = [k \in 1..m |-> facts[t][n + 1 - k]]
  BY DEF Remember!ContextString
<1>4. m \in 0..n /\ (n > 0 => m > 0)
  BY <1>2
<1> HIDE DEF n, m
<1>5. Range(Remember!ContextString(t)) \subseteq Range(facts[t])
  <2>1. \A k \in 1..m : n + 1 - k \in 1..n
    BY <1>2, <1>4
  <2> QED
    BY <1>2, <1>3, <2>1 DEF Range
<1>6. ASSUME facts[t] # <<>> PROVE Remember!ContextString(t)[1] = facts[t][n]
  <2>1. 1 \in 1..m /\ n + 1 - 1 = n
    BY <1>2, <1>4, <1>6
  <2> QED
    BY <1>3, <2>1
<1> QED
  BY <1>5, <1>6 DEF FactsInv, n

-----------------------------------------------------------------------------
(* Sessions. A session's row, turns and summaries, by what became of its      *)
(* connection.                                                                *)

Phases == {"open", "ending", "closed", "lost"}
SummedUp(s) == {i \in DOMAIN summaries : summaries[i].session = s}

SessionInv(s) ==
  /\ row[s] = Remember!NoRow
       \/ row[s] \in [user : {UserOf(s)}, reason : {"null", "user_ended", "connection_closed"}]
  /\ Remember!Recorded(s) => conn[s].known /\ UserOf(s) \in users
  /\ turns[s] > 0 => Remember!Recorded(s)
  /\ IsFiniteSet(SummedUp(s))
  /\ Cardinality(SummedUp(s)) <= ends[s] + (IF conn[s].phase = "closed" THEN 1 ELSE 0)
  /\ row[s].reason = "user_ended" => ends[s] > 0
  /\ conn[s].phase # "closed" => row[s].reason # "connection_closed"
  /\ conn[s].phase = "open" => ends[s] = 0
  /\ conn[s].phase = "closed" /\ s \notin skipped =>
       /\ row[s].reason \in {"absent", "connection_closed"}
       /\ turns[s] > 0 => \E i \in SummedUp(s) : summaries[i].turns = turns[s]

ToldInv(s) ==
  /\ context[s].returning => Remember!PreviousSessions(s) # {}
  /\ context[s].told => Remember!LastSummaries(s) # {} \/ Remember!RecentHistory(s) # {}

\* Whom a summary is of, that it tells no more than was said, and no less than the earlier ones.
SummaryInv(i) ==
  /\ summaries[i].session \in Sessions
  /\ summaries[i].user = UserOf(summaries[i].session)
  /\ summaries[i].turns \in 1..turns[summaries[i].session]
  /\ \A j \in 1..i : summaries[j].session = summaries[i].session =>
                       summaries[j].turns <= summaries[i].turns

Entry == [user : {UserOf(s) : s \in Sessions}, session : Sessions, turns : Int]

SessionsInv ==
  /\ conn \in [Sessions -> [phase : Phases, known : BOOLEAN]]
  /\ row \in [Sessions -> {row[s] : s \in Sessions}]
  /\ turns \in [Sessions -> Nat] /\ ends \in [Sessions -> Nat]
  /\ context \in [Sessions -> {context[s] : s \in Sessions}]
  /\ summaries \in Seq(Entry)
  /\ \A s \in Sessions : SessionInv(s) /\ ToldInv(s)
  /\ \A i \in DOMAIN summaries : SummaryInv(i)

\* What was said, summed up and recorded stays.
MemoryGrows ==
  /\ users \subseteq users'
  /\ \A s \in Sessions : turns[s] <= turns'[s] /\ turns'[s] \in Nat
  /\ \A i \in DOMAIN summaries : i \in DOMAIN summaries' /\ summaries'[i] = summaries[i]
  /\ \A s \in Sessions : row[s] # Remember!NoRow => row'[s].user = row[s].user

LEMMA ToldStaysTrue ==
  ASSUME SessionsInv, MemoryGrows, \A r \in Sessions : UserOf(r) # "null", NEW s \in Sessions,
         context'[s] \in {context[s], Remember!SessionContext(s)}
  PROVE  ToldInv(s)'
<1>1. ToldInv(s) /\ turns \in [Sessions -> Nat]
  BY DEF SessionsInv
<1>2. Remember!PreviousSessions(s) \subseteq Remember!PreviousSessions(s)'
  <2>1. ASSUME NEW r \in Sessions, row[r].user = UserOf(s) PROVE row'[r].user = UserOf(s)
    BY <2>1 DEF MemoryGrows, Remember!NoRow
  <2> QED
    BY <2>1 DEF Remember!PreviousSessions
<1>3. Remember!LastSummaries(s) \subseteq Remember!LastSummaries(s)'
  BY DEF Remember!LastSummaries, MemoryGrows
<1>4. Remember!RecentHistory(s) \subseteq Remember!RecentHistory(s)'
  BY <1>1 DEF Remember!RecentHistory, MemoryGrows
<1>5. /\ context'[s].returning => Remember!PreviousSessions(s) # {}
      /\ context'[s].told => Remember!LastSummaries(s) # {} \/ Remember!RecentHistory(s) # {}
  <2>1. CASE context'[s] = context[s]
    BY <1>1, <2>1 DEF ToldInv
  <2>2. CASE context'[s] = Remember!SessionContext(s)
    <3>1. /\ Remember!SessionContext(s).returning <=> Remember!PreviousSessions(s) # {}
          /\ Remember!SessionContext(s).told <=>
               Remember!LastSummaries(s) # {} \/ Remember!RecentHistory(s) # {}
      BY DEF Remember!SessionContext
    <3> QED
      BY <2>2, <3>1
  <2> QED
    BY <2>1, <2>2
<1>6. /\ Remember!PreviousSessions(s) # {} => Remember!PreviousSessions(s)' # {}
      /\ Remember!LastSummaries(s) # {} => Remember!LastSummaries(s)' # {}
      /\ Remember!RecentHistory(s) # {} => Remember!RecentHistory(s)' # {}
  BY <1>2, <1>3, <1>4
<1> QED
  BY <1>5, <1>6 DEF ToldInv

\* What a step that leaves the summaries as they are may still change.
LEMMA NothingSummedUp ==
  ASSUME SessionsInv, UNCHANGED summaries, MemoryGrows
  PROVE  /\ summaries' \in Seq(Entry)
         /\ \A i \in DOMAIN summaries' : SummaryInv(i)'
         /\ \A s \in Sessions : SummedUp(s)' = SummedUp(s)
<1>1. ASSUME NEW i \in DOMAIN summaries PROVE SummaryInv(i)'
  <2> DEFINE x == summaries[i].session
  <2>1. /\ x \in Sessions /\ summaries[i].user = UserOf(x)
        /\ summaries[i].turns \in 1..turns[x] /\ turns[x] \in Nat
    BY <1>1 DEF SessionsInv, SummaryInv
  <2> HIDE DEF x
  <2>2. turns[x] <= turns'[x] /\ turns'[x] \in Nat
    BY <2>1 DEF MemoryGrows
  <2>3. summaries[i].turns \in 1..turns'[x]
    BY <2>1, <2>2
  <2>4. \A j \in 1..i : summaries[j].session = x => summaries[j].turns <= summaries[i].turns
    BY <1>1 DEF SessionsInv, SummaryInv, x
  <2> QED
    BY <2>1, <2>3, <2>4 DEF SummaryInv, x
<1> QED
  BY <1>1 DEF SessionsInv, SummedUp

\* A session that a step does not concern.
Alone(s) ==
  /\ row'[s] = row[s] /\ conn'[s].phase = conn[s].phase /\ turns'[s] = turns[s]
  /\ conn[s].known => conn'[s].known
  /\ users \subseteq users' /\ ends'[s] = ends[s] /\ (s \in skipped' <=> s \in skipped)
  /\ SummedUp(s)' = SummedUp(s) /\ \A i \in SummedUp(s) : summaries'[i] = summaries[i]

LEMMA SessionLeftAlone ==
  ASSUME NEW s \in Sessions, SessionInv(s), Alone(s)
  PROVE  SessionInv(s)'
<1> DEFINE a == SummedUp(s)
<1>1. SummedUp(s)' = a /\ \A i \in a : summaries'[i] = summaries[i]
  BY DEF Alone
<1>2. Remember!Recorded(s)' <=> Remember!Recorded(s)
  BY DEF Remember!Recorded, Alone
<1>3. UserOf(s) \in users => UserOf(s) \in users'
  BY DEF Alone
<1> HIDE DEF a
<1> QED
  BY <1>1, <1>2, <1>3 DEF SessionInv, Alone, a

LEMMA MemoryStays ==
  ASSUME SessionsInv, users \subseteq users', UNCHANGED <<turns, summaries>>,
         \A s \in Sessions : row[s] # Remember!NoRow => row'[s].user = row[s].user
  PROVE  MemoryGrows
<1>1. \A s \in Sessions : turns[s] <= turns'[s] /\ turns'[s] \in Nat
  <2>1. \A s \in Sessions : turns[s] \in Nat
    BY DEF SessionsInv
  <2> QED
    BY <2>1
<1> QED
  BY <1>1 DEF MemoryGrows

LEMMA StartKeepsInv ==
  ASSUME SessionsInv, \A r \in Sessions : UserOf(r) # "null", NEW s \in Sessions,
         Remember!SessionStart(s)
  PROVE  SessionsInv'
<1>1. /\ conn[s].phase \in {"open", "ending"} /\ conn' = [conn EXCEPT ![s].known = TRUE]
      /\ users' = users \union {UserOf(s)}
      /\ UNCHANGED <<turns, summaries, ends, skipped>>
  BY DEF Remember!SessionStart
<1>2. /\ conn \in [Sessions -> [phase : Phases, known : BOOLEAN]]
      /\ row \in [Sessions -> {row[r] : r \in Sessions}]
      /\ context \in [Sessions -> {context[r] : r \in Sessions}]
      /\ turns \in [Sessions -> Nat]
      /\ \A r \in Sessions : SessionInv(r)
  BY DEF SessionsInv
<1>3. \/ row' = row
      \/ row[s] = Remember!NoRow
           /\ row' = [row EXCEPT ![s] = [user |-> UserOf(s), reason |-> "null"]]
  BY DEF Remember!SessionStart, Remember!RecordSession, Remember!Recorded
<1>4. context' = context \/ context' = [context EXCEPT ![s] = Remember!SessionContext(s)]
  BY DEF Remember!SessionStart
<1>5. /\ row' \in [Sessions -> {row'[r] : r \in Sessions}]
      /\ context' \in [Sessions -> {context'[r] : r \in Sessions}]
  BY <1>2, <1>3, <1>4
<1>6. conn' \in [Sessions -> [phase : Phases, known : BOOLEAN]]
      /\ conn'[s].known /\ \A r \in Sessions : /\ conn'[r].phase = conn[r].phase
                                               /\ conn[r].known => conn'[r].known
  BY <1>1, <1>2
<1>7. \A r \in Sessions : \/ row'[r] = row[r]
                          \/ /\ r = s /\ row[r] = Remember!NoRow
                             /\ row'[r] = [user |-> UserOf(s), reason |-> "null"]
  BY <1>2, <1>3
<1>8. MemoryGrows
  <2>1. ASSUME NEW r \in Sessions, row[r] # Remember!NoRow PROVE row'[r].user = row[r].user
    <3>1. row[r].user = UserOf(r)
      BY <1>2, <2>1 DEF SessionInv
    <3> QED
      BY <1>7, <3>1
  <2> QED
    BY <1>1, <2>1, MemoryStays
<1>9. \A r \in Sessions : SummedUp(r)' = SummedUp(r)
  BY <1>1 DEF SummedUp
<1>10. ASSUME NEW r \in Sessions PROVE SessionInv(r)'
  <2>0. SessionInv(r)
    BY <1>2
  <2>1. CASE row'[r] = row[r]
    <3>1. Alone(r)
      BY <1>1, <1>6, <1>9, <2>1 DEF Alone
    <3> QED
      BY <2>0, <3>1, SessionLeftAlone
  <2>2. CASE /\ r = s /\ row[r] = Remember!NoRow
             /\ row'[r] = [user |-> UserOf(s), reason |-> "null"]
    <3> DEFINE a == SummedUp(s)
    <3>1. /\ row'[s] \in [user : {UserOf(s)}, reason : {"null", "user_ended", "connection_closed"}]
          /\ row'[s].reason = "null" /\ conn'[s].known /\ conn'[s].phase = conn[s].phase
          /\ UserOf(s) \in users' /\ UNCHANGED <<ends, skipped>>
          /\ SummedUp(s)' = a /\ IsFiniteSet(a)
      BY <1>1, <1>6, <1>9, <2>0, <2>2 DEF SessionInv
    <3>2. Remember!Recorded(s)'
      BY <3>1 DEF Remember!Recorded, Remember!NoRow
    <3>3. Cardinality(a) <= ends[s] + (IF conn[s].phase = "closed" THEN 1 ELSE 0)
      BY <2>0, <2>2 DEF SessionInv
    <3> HIDE DEF a
    <3> QED
      BY <1>1, <2>0, <2>2, <3>1, <3>2, <3>3 DEF SessionInv
  <2> QED
    BY <1>7, <2>1, <2>2
<1>11. ASSUME NEW r \in Sessions PROVE ToldInv(r)'
  <2>1. context'[r] \in {context[r], Remember!SessionContext(r)}
    BY <1>2, <1>4
  <2> QED
    BY <1>8, <2>1, ToldStaysTrue
<1> QED
  BY <1>1, <1>2, <1>5, <1>6, <1>8, <1>10, <1>11, NothingSummedUp DEF SessionsInv

LEMMA TurnKeepsInv ==
  ASSUME SessionsInv, \A r \in Sessions : UserOf(r) # "null", NEW s \in Sessions,
         Remember!SaveTurn(s)
  PROVE  SessionsInv'
<1>1. /\ conn[s].phase \in {"open", "ending"} /\ Remember!Recorded(s)
      /\ turns' = [turns EXCEPT ![s] = @ + 1]
      /\ UNCHANGED <<conn, users, row, summaries, context, ends, skipped>>
  BY DEF Remember!SaveTurn
<1>2. /\ turns \in [Sessions -> Nat] /\ \A r \in Sessions : SessionInv(r)
  BY DEF SessionsInv
<1>3. turns' \in [Sessions -> Nat] /\ \A r \in Sessions : /\ turns[r] <= turns'[r]
                                                         /\ r # s => turns'[r] = turns[r]
  BY <1>1, <1>2
<1>4. MemoryGrows
  <2>1. ASSUME NEW r \in Sessions PROVE turns[r] <= turns'[r] /\ turns'[r] \in Nat
    <3>1. turns[r] <= turns'[r]
      BY <1>1, <1>2
    <3>2. turns'[r] \in Nat
      BY <1>3, Zenon
    <3> QED
      BY <3>1, <3>2
  <2> QED
    BY <1>1, <2>1 DEF MemoryGrows
<1>5. \A r \in Sessions : SummedUp(r)' = SummedUp(r)
  BY <1>1 DEF SummedUp
<1>6. ASSUME NEW r \in Sessions PROVE SessionInv(r)'
  <2>1. CASE r = s
    BY <1>1, <1>2, <1>5, <2>1 DEF SessionInv, Remember!Recorded
  <2>2. CASE r # s
    BY <1>1, <1>2, <1>3, <1>5, <2>2 DEF SessionInv, Remember!Recorded
  <2> QED
    BY <2>1, <2>2
<1>7. ASSUME NEW r \in Sessions PROVE ToldInv(r)'
  BY <1>1, <1>4, ToldStaysTrue
<1> QED
  BY <1>1, <1>3, <1>4, <1>6, <1>7, NothingSummedUp DEF SessionsInv

\* Its reason is written to a row that is there.
LEMMA ReasonIsWritten ==
  ASSUME SessionsInv, NEW s \in Sessions, NEW reason \in {"user_ended", "connection_closed"},
         row' = IF row[s] # Remember!NoRow THEN [row EXCEPT ![s].reason = reason] ELSE row
  PROVE  /\ row' \in [Sessions -> {row'[r] : r \in Sessions}]
         /\ \A r \in Sessions \ {s} : row'[r] = row[r]
         /\ row[s] = Remember!NoRow => row'[s] = row[s]
         /\ row[s] # Remember!NoRow => row'[s] = [user |-> UserOf(s), reason |-> reason]
<1>1. row \in [Sessions -> {row[r] : r \in Sessions}] /\ SessionInv(s)
  BY DEF SessionsInv
<1>2. CASE row[s] = Remember!NoRow
  BY <1>1, <1>2
<1>3. CASE row[s] # Remember!NoRow
  <2>1. [row[s] EXCEPT !.reason = reason] = [user |-> UserOf(s), reason |-> reason]
    <3>1. row[s] \in [user : {UserOf(s)}, reason : {"null", "user_ended", "connection_closed"}]
      BY <1>1, <1>3 DEF SessionInv
    <3> QED
      BY <3>1
  <2> DEFINE v == [user |-> UserOf(s), reason |-> reason]
  <2>2. row' = [row EXCEPT ![s] = v]
    BY <1>3, <2>1
  <2> HIDE DEF v
  <2>3. row'[s] = v /\ row' \in [Sessions -> {row'[r] : r \in Sessions}]
    BY <1>1, <2>2
  <2> QED
    BY <1>1, <1>3, <2>2, <2>3 DEF v
<1> QED
  BY <1>2, <1>3

\* The summary is appended, or is not.
LEMMA SummaryIsSaved ==
  ASSUME SessionsInv, NEW s \in Sessions,
         Remember!AppendSummary(s) \/ UNCHANGED summaries, UNCHANGED <<users, turns>>,
         \A r \in Sessions : row[r] # Remember!NoRow => row'[r].user = row[r].user
  PROVE  /\ MemoryGrows
         /\ summaries' \in Seq(Entry) /\ \A i \in DOMAIN summaries' : SummaryInv(i)'
         /\ \A r \in Sessions \ {s} : SummedUp(r)' = SummedUp(r)
         /\ IsFiniteSet(SummedUp(s)')
         /\ Cardinality(SummedUp(s)') <= Cardinality(SummedUp(s)) + 1
         /\ turns[s] > 0 /\ Remember!AppendSummary(s) =>
              \E i \in SummedUp(s)' : summaries'[i].turns = turns[s]
<1>1. /\ summaries \in Seq(Entry) /\ turns \in [Sessions -> Nat]
      /\ \A r \in Sessions : SessionInv(r)
      /\ \A i \in DOMAIN summaries : SummaryInv(i)
  BY DEF SessionsInv
<1>2. IsFiniteSet(SummedUp(s)) /\ Cardinality(SummedUp(s)) \in Nat
  BY <1>1, FS_CardinalityType DEF SessionInv
<1>3. /\ turns[s] > 0 /\ Remember!AppendSummary(s) =>
           summaries' = Append(summaries, [user |-> UserOf(s), session |-> s, turns |-> turns[s]])
      /\ ~(turns[s] > 0 /\ Remember!AppendSummary(s)) => summaries' = summaries
  BY DEF Remember!AppendSummary
<1>4. CASE ~(turns[s] > 0 /\ Remember!AppendSummary(s))
  <2>1. MemoryGrows
    BY <1>3, <1>4, MemoryStays
  <2>2. /\ summaries' \in Seq(Entry) /\ \A i \in DOMAIN summaries' : SummaryInv(i)'
        /\ \A r \in Sessions : SummedUp(r)' = SummedUp(r)
    BY <1>3, <1>4, <2>1, NothingSummedUp
  <2> QED
    BY <1>2, <1>4, <2>1, <2>2
<1>5. CASE turns[s] > 0 /\ Remember!AppendSummary(s)
  <2> DEFINE n == Len(summaries)
             e == [user |-> UserOf(s), session |-> s, turns |-> turns[s]]
  <2>1. summaries' = Append(summaries, e)
    BY <1>3, <1>5
  <2>2. e \in Entry /\ e.user = UserOf(s) /\ e.session = s /\ e.turns = turns[s]
    BY <1>1 DEF Entry
  <2> HIDE DEF e
  <2>3. /\ n \in Nat /\ DOMAIN summaries = 1..n
        /\ summaries' \in Seq(Entry) /\ DOMAIN summaries' = 1..(n + 1)
        /\ \A i \in 1..n : summaries'[i] = summaries[i]
        /\ summaries'[n + 1] = e
    BY <1>1, <2>1, <2>2, AppendProperties, LenProperties
  <2> HIDE DEF n
  <2>4. n + 1 \in 1..(n + 1) /\ n + 1 \notin 1..n
        /\ \A i \in 1..(n + 1) : i \in 1..n \/ i = n + 1
    BY <2>3
  <2>5. MemoryGrows
    BY <1>1, <2>3, <2>4 DEF MemoryGrows
  <2>6. ASSUME NEW i \in DOMAIN summaries' PROVE SummaryInv(i)'
    <3>1. CASE i = n + 1
      <4>1. turns[s] \in 1..turns[s]
        BY <1>1, <1>5
      <4>2. ASSUME NEW j \in 1..i, summaries'[j].session = s
            PROVE  summaries'[j].turns <= turns[s]
        <5>1. CASE j = n + 1
          BY <1>1, <2>2, <2>3, <5>1
        <5>2. CASE j \in 1..n
          <6>1. summaries[j].turns \in 1..turns[s]
            BY <1>1, <2>3, <4>2, <5>2 DEF SummaryInv
          <6> QED
            BY <2>3, <5>2, <6>1
        <5> QED
          BY <2>4, <3>1, <5>1, <5>2
      <4> QED
        BY <2>2, <2>3, <3>1, <4>1, <4>2 DEF SummaryInv
    <3>2. CASE i \in 1..n
      <4>1. SummaryInv(i)
        BY <1>1, <2>3, <3>2
      <4>2. \A j \in 1..i : j \in 1..n
        BY <2>3, <3>2
      <4>3. \A j \in 1..i : summaries'[j] = summaries[j]
        BY <2>3, <4>2
      <4> QED
        BY <2>3, <3>2, <4>1, <4>3 DEF SummaryInv
    <3> QED
      BY <2>3, <2>4, <3>1, <3>2
  <2>7. SummedUp(s)' = SummedUp(s) \union {n + 1} /\ n + 1 \notin SummedUp(s)
    BY <2>2, <2>3, <2>4 DEF SummedUp
  <2>8. IsFiniteSet(SummedUp(s)') /\ Cardinality(SummedUp(s)') = Cardinality(SummedUp(s)) + 1
    BY <1>2, <2>7, FS_AddElement
  <2>9. \A r \in Sessions \ {s} : SummedUp(r)' = SummedUp(r)
    BY <2>2, <2>3, <2>4 DEF SummedUp
  <2>10. n + 1 \in SummedUp(s)' /\ summaries'[n + 1].turns = turns[s]
    BY <2>2, <2>3, <2>7
  <2> QED
    BY <1>2, <2>3, <2>5, <2>6, <2>8, <2>9, <2>10
<1> QED
  BY <1>4, <1>5

\* An end: as far as its statements succeed the session is summed up; its connection is in
\* the next phase.
LEMMA EndKeepsInv ==
  ASSUME SessionsInv, \A r \in Sessions : UserOf(r) # "null", NEW s \in Sessions,
         Remember!MessageEnd(s) \/ Remember!CloseConnection(s)
  PROVE  SessionsInv'
<1> DEFINE asked == Remember!MessageEnd(s)
           reason == IF asked THEN "user_ended" ELSE "connection_closed"
           phase == IF asked THEN "ending" ELSE "closed"
           saved == Remember!AppendSummary(s) /\ row' =
                      IF row[s] # Remember!NoRow THEN [row EXCEPT ![s].reason = reason] ELSE row
<1>1. /\ conn \in [Sessions -> [phase : Phases, known : BOOLEAN]]
      /\ context \in [Sessions -> {context[r] : r \in Sessions}]
      /\ row \in [Sessions -> {row[r] : r \in Sessions}]
      /\ turns \in [Sessions -> Nat] /\ ends \in [Sessions -> Nat]
      /\ \A r \in Sessions : SessionInv(r)
  BY DEF SessionsInv
<1>2. /\ conn[s].phase \in {"open", "ending"} /\ conn' = [conn EXCEPT ![s].phase = phase]
      /\ UNCHANGED <<users, turns, context>>
      /\ asked => ends' = [ends EXCEPT ![s] = @ + 1] /\ UNCHANGED skipped
      /\ ~asked => UNCHANGED ends
      /\ \/ saved /\ conn[s].known /\ UNCHANGED skipped
         \/ /\ Remember!AppendSummary(s) \/ UNCHANGED summaries
            /\ UNCHANGED row /\ (~asked => skipped' = skipped \union {s})
         \/ ~conn[s].known /\ UNCHANGED <<summaries, row, skipped>>
  BY DEF Remember!MessageEnd, Remember!CloseConnection, Remember!SaveSummary,
    Remember!SavingFails, Remember!Recorded
<1>3. reason \in {"user_ended", "connection_closed"}
  OBVIOUS
<1>4. /\ row' \in [Sessions -> {row'[r] : r \in Sessions}]
      /\ \A r \in Sessions \ {s} : row'[r] = row[r]
      /\ row[s] = Remember!NoRow => row'[s] = row[s]
      /\ row[s] # Remember!NoRow =>
           row'[s] = row[s] \/ row'[s] = [user |-> UserOf(s), reason |-> reason]
      /\ row[s] # Remember!NoRow /\ saved => row'[s] = [user |-> UserOf(s), reason |-> reason]
  <2>1. CASE saved
    BY <1>3, <2>1, ReasonIsWritten
  <2>2. CASE ~saved
    BY <1>1, <1>2, <2>2
  <2> QED
    BY <2>1, <2>2
<1>5. \A r \in Sessions : row[r] # Remember!NoRow => row'[r].user = row[r].user
  <2> TAKE r \in Sessions
  <2>1. row[s] # Remember!NoRow => row[s].user = UserOf(s)
    BY <1>1 DEF SessionInv
  <2>2. CASE r = s
    BY <1>4, <2>1, <2>2
  <2>3. CASE r # s
    BY <1>4, <2>3
  <2> QED
    BY <2>2, <2>3
<1>6. /\ MemoryGrows
      /\ summaries' \in Seq(Entry) /\ \A i \in DOMAIN summaries' : SummaryInv(i)'
      /\ \A r \in Sessions \ {s} : SummedUp(r)' = SummedUp(r)
      /\ IsFiniteSet(SummedUp(s)')
      /\ Cardinality(SummedUp(s)') <= Cardinality(SummedUp(s)) + 1
      /\ turns[s] > 0 /\ Remember!AppendSummary(s) =>
           \E i \in SummedUp(s)' : summaries'[i].turns = turns[s]
  <2>1. Remember!AppendSummary(s) \/ UNCHANGED summaries
    BY <1>2
  <2> QED
    BY <1>2, <1>5, <2>1, SummaryIsSaved
<1>7. /\ conn' \in [Sessions -> [phase : Phases, known : BOOLEAN]]
      /\ conn'[s].phase = phase /\ conn'[s].known = conn[s].known
      /\ \A r \in Sessions \ {s} : conn'[r] = conn[r]
  <2>1. phase \in Phases
    BY DEF Phases
  <2> HIDE DEF phase
  <2> QED
    BY <1>1, <1>2, <2>1
<1> HIDE DEF asked, saved
<1>8. /\ ends' \in [Sessions -> Nat]
      /\ ends'[s] = IF asked THEN ends[s] + 1 ELSE ends[s]
      /\ \A r \in Sessions \ {s} : ends'[r] = ends[r] /\ (r \in skipped' <=> r \in skipped)
  <2>1. CASE asked
    <3>1. ends' = [ends EXCEPT ![s] = ends[s] + 1] /\ skipped' = skipped
      BY <1>2, <2>1
    <3>2. ends \in [Sessions -> Nat]
      BY <1>1
    <3>3. ends[s] + 1 \in Nat
      BY <3>2
    <3> QED
      BY <2>1, <3>1, <3>2, <3>3
  <2>2. CASE ~asked
    BY <1>1, <1>2, <2>2
  <2> QED
    BY <2>1, <2>2
<1>9. ~asked /\ s \notin skipped' => saved \/ row[s] = Remember!NoRow
  BY <1>1, <1>2 DEF SessionInv, Remember!Recorded
<1>10. ASSUME NEW r \in Sessions PROVE SessionInv(r)'
  <2>0. SessionInv(r)
    BY <1>1
  <2>1. CASE r # s
    <3>1. \A i \in SummedUp(r) : summaries'[i] = summaries[i]
      BY <1>6 DEF MemoryGrows, SummedUp
    <3>2. Alone(r)
      BY <1>2, <1>4, <1>6, <1>7, <1>8, <2>1, <3>1 DEF Alone
    <3> QED
      BY <2>0, <3>2, SessionLeftAlone
  <2>2. CASE r = s
    <3> DEFINE a == SummedUp(s)
               b == SummedUp(s)'
               A == Cardinality(a)
               B == Cardinality(b)
    <3>1. SessionInv(s) /\ ends[s] \in Nat
      BY <1>1
    <3>2. A \in Nat /\ B \in Nat /\ B <= A + 1 /\ A <= ends[s]
      BY <1>2, <1>6, <3>1, FS_CardinalityType DEF SessionInv
    <3>3. B <= ends'[s] + (IF phase = "closed" THEN 1 ELSE 0)
      BY <1>8, <3>1, <3>2
    <3>4. /\ row'[s] = Remember!NoRow \/ row'[s]
               \in [user : {UserOf(s)}, reason : {"null", "user_ended", "connection_closed"}]
          /\ row'[s].reason \in {row[s].reason, reason}
          /\ Remember!Recorded(s)' <=> Remember!Recorded(s)
      <4>1. CASE row[s] = Remember!NoRow
        BY <1>4, <4>1 DEF Remember!NoRow, Remember!Recorded
      <4>2. CASE row[s] # Remember!NoRow
        <5>1. row[s] \in [user : {UserOf(s)}, reason : {"null", "user_ended", "connection_closed"}]
          BY <3>1, <4>2 DEF SessionInv
        <5>2. /\ row'[s] \in [user : {UserOf(s)}, reason : {"null", "user_ended", "connection_closed"}]
              /\ row'[s].reason \in {row[s].reason, reason}
          BY <1>3, <1>4, <4>2, <5>1
        <5> QED
          BY <4>2, <5>2 DEF Remember!NoRow, Remember!Recorded
      <4> QED
        BY <4>1, <4>2
    <3>5. /\ Remember!Recorded(s)' => conn'[s].known /\ UserOf(s) \in users'
          /\ turns'[s] > 0 => Remember!Recorded(s)'
      BY <1>2, <1>7, <3>1, <3>4 DEF SessionInv
    <3>6. row'[s].reason = "user_ended" => ends'[s] > 0
      BY <1>8, <3>1, <3>4 DEF SessionInv
    <3>7. phase # "closed" => row'[s].reason # "connection_closed"
      BY <1>2, <3>1, <3>4 DEF SessionInv
    <3>8. phase = "closed" /\ s \notin skipped' =>
            /\ row'[s].reason \in {"absent", "connection_closed"}
            /\ turns'[s] > 0 => \E i \in b : summaries'[i].turns = turns'[s]
      <4>1. CASE saved
        BY <1>2, <1>4, <1>6, <4>1 DEF saved, Remember!NoRow
      <4>2. CASE row[s] = Remember!NoRow
        BY <1>2, <1>4, <3>1, <4>2 DEF SessionInv, Remember!Recorded, Remember!NoRow
      <4> QED
        BY <1>9, <4>1, <4>2
    <3>9. phase # "open"
      OBVIOUS
    <3>10. IsFiniteSet(b)
      BY <1>6
    <3> HIDE DEF A, B, a, phase, reason
    <3> QED
      BY <1>7, <2>2, <3>3, <3>4, <3>5, <3>6, <3>7, <3>8, <3>9, <3>10 DEF SessionInv, B
  <2> QED
    BY <2>1, <2>2
<1>11. ASSUME NEW r \in Sessions PROVE ToldInv(r)'
  BY <1>2, <1>6, ToldStaysTrue
<1>12. turns' \in [Sessions -> Nat] /\ context' \in [Sessions -> {context'[r] : r \in Sessions}]
  BY <1>1, <1>2
<1> QED
  BY <1>4, <1>6, <1>7, <1>8, <1>10, <1>11, <1>12 DEF SessionsInv

LEMMA CrashKeepsInv ==
  ASSUME SessionsInv, \A r \in Sessions : UserOf(r) # "null", Remember!Crash
  PROVE  SessionsInv'
<1>1. /\ conn' = [r \in Sessions |-> IF conn[r].known /\ conn[r].phase # "closed"
                                     THEN [conn[r] EXCEPT !.phase = "lost"] ELSE conn[r]]
      /\ UNCHANGED <<users, row, turns, summaries, context, ends, skipped>>
  BY DEF Remember!Crash
<1>2. /\ conn \in [Sessions -> [phase : Phases, known : BOOLEAN]]
      /\ \A r \in Sessions : SessionInv(r)
  BY DEF SessionsInv
<1>3. ASSUME NEW r \in Sessions
      PROVE  /\ conn'[r] \in [phase : Phases, known : BOOLEAN] /\ conn'[r].known = conn[r].known
             /\ conn'[r].phase \in {conn[r].phase, "lost"}
             /\ conn[r].phase = "closed" => conn'[r].phase = "closed"
  <2>1. conn[r] \in [phase : Phases, known : BOOLEAN]
    BY <1>2
  <2>2. CASE conn[r].known /\ conn[r].phase # "closed"
    BY <1>1, <2>1, <2>2 DEF Phases
  <2>3. CASE ~(conn[r].known /\ conn[r].phase # "closed")
    BY <1>1, <2>1, <2>3
  <2> QED
    BY <2>2, <2>3
<1>4. MemoryGrows
  BY <1>1, MemoryStays DEF SessionsInv
<1>5. /\ summaries' \in Seq(Entry) /\ \A i \in DOMAIN summaries' : SummaryInv(i)'
      /\ \A r \in Sessions : SummedUp(r)' = SummedUp(r)
  BY <1>1, <1>4, NothingSummedUp
<1>6. ASSUME NEW r \in Sessions PROVE SessionInv(r)'
  <2>1. SessionInv(r)
    BY <1>2
  <2>2. CASE conn'[r].phase = conn[r].phase
    <3>1. Alone(r)
      BY <1>1, <1>3, <1>5, <2>2 DEF Alone
    <3> QED
      BY <2>1, <3>1, SessionLeftAlone
  <2>3. CASE conn'[r].phase = "lost" /\ conn[r].phase \in {"open", "ending"}
    <3> DEFINE a == SummedUp(r)
    <3>1. SummedUp(r)' = a /\ IsFiniteSet(a)
      BY <1>5, <2>1 DEF SessionInv
    <3>2. /\ Cardinality(a) <= ends[r] + 0
          /\ row[r].reason # "connection_closed" /\ (row[r].reason = "user_ended" => ends[r] > 0)
      BY <2>1, <2>3 DEF SessionInv
    <3>3. Remember!Recorded(r)' <=> Remember!Recorded(r)
      BY <1>1 DEF Remember!Recorded
    <3>4. /\ row[r] = Remember!NoRow \/ row[r]
               \in [user : {UserOf(r)}, reason : {"null", "user_ended", "connection_closed"}]
          /\ Remember!Recorded(r) => conn[r].known /\ UserOf(r) \in users
          /\ turns[r] > 0 => Remember!Recorded(r)
      BY <2>1 DEF SessionInv
    <3> HIDE DEF a
    <3> QED
      BY <1>1, <1>3, <2>3, <3>1, <3>2, <3>3, <3>4 DEF SessionInv
  <2>4. conn[r].phase \in Phases
    BY <1>2
  <2> QED
    BY <1>3, <2>2, <2>3, <2>4 DEF Phases
<1>7. ASSUME NEW r \in Sessions PROVE ToldInv(r)'
  BY <1>1, <1>4, ToldStaysTrue
<1>8. conn' \in [Sessions -> [phase : Phases, known : BOOLEAN]]
  BY <1>1, <1>3
<1> QED
  BY <1>1, <1>5, <1>6, <1>7, <1>8 DEF SessionsInv

LEMMA SessionsKeepInv ==
  ASSUME SessionsInv, \A r \in Sessions : UserOf(r) # "null", MemoryStep
  PROVE  SessionsInv'
<1>1. CASE Remember!SessionsNext
  BY <1>1, StartKeepsInv, TurnKeepsInv, EndKeepsInv, CrashKeepsInv DEF Remember!SessionsNext
<1>2. CASE Remember!SchemaNext \/ Remember!FactsNext \/ UNCHANGED memoryVars
  <2>1. UNCHANGED <<conn, users, row, turns, summaries, context, ends, skipped>>
    BY <1>2 DEF Remember!SchemaNext, Remember!FactsNext, Remember!GetDatabase,
      Remember!CreateTables, Remember!RecordMigration, Remember!Initialized,
      Remember!EndProcess, Remember!AddFact, Remember!DeleteEntry, Remember!ClearTenant,
      Remember!sessionVars, memoryVars
  <2>2. MemoryGrows
    BY <2>1, MemoryStays
  <2>3. /\ summaries' \in Seq(Entry) /\ \A i \in DOMAIN summaries' : SummaryInv(i)'
        /\ \A r \in Sessions : SummedUp(r)' = SummedUp(r)
    BY <2>1, <2>2, NothingSummedUp
  <2>4. ASSUME NEW r \in Sessions PROVE SessionInv(r)' /\ ToldInv(r)'
    <3>1. SessionInv(r) /\ Alone(r)
      BY <2>1, <2>3 DEF SessionsInv, Alone
    <3>2. ToldInv(r)'
      BY <2>1, <2>2, ToldStaysTrue
    <3> QED
      BY <3>1, <3>2, SessionLeftAlone
  <2> QED
    BY <2>1, <2>3, <2>4 DEF SessionsInv
<1> QED
  BY <1>1, <1>2 DEF MemoryStep, Remember!Next

-----------------------------------------------------------------------------
MemoryInv == SchemaInv /\ FactsInv /\ SessionsInv

LEMMA MemoryBegins ==
  ASSUME Migrations \in Nat, Remember!Init
  PROVE  MemoryInv
<1>1. SchemaInv
  <2>1. tables = 0 /\ recorded = 0 /\ instance = "none" /\ slipped = FALSE
    BY DEF Remember!Init
  <2>2. recorded \in 0..Migrations /\ tables \in {recorded, recorded + 1} /\ tables <= Migrations
    BY <2>1
  <2> QED
    BY <2>1, <2>2, Zenon DEF SchemaInv
<1>2. FactsInv
  <2>1. <<>> \in Seq(Remembered) /\ Range(<<>>) = {}
    BY DEF Range
  <2>2. facts = [t \in Customers |-> <<>>]
    BY DEF Remember!Init
  <2> QED
    BY <2>1, <2>2 DEF FactsInv
<1>3. /\ conn = [s \in Sessions |-> [phase |-> "open", known |-> FALSE]]
      /\ row = [s \in Sessions |-> Remember!NoRow]
      /\ turns = [s \in Sessions |-> 0] /\ summaries = <<>>
      /\ context = [s \in Sessions |-> Remember!NoContext]
      /\ ends = [s \in Sessions |-> 0] /\ skipped = {}
  BY DEF Remember!Init
<1>4. ASSUME NEW s \in Sessions PROVE SessionInv(s) /\ ToldInv(s)
  <2>1. SummedUp(s) = {} /\ IsFiniteSet({})
    BY <1>3, FS_EmptySet DEF SummedUp
  <2>2. conn[s].phase = "open" /\ row[s] = Remember!NoRow /\ turns[s] = 0
        /\ context[s] = Remember!NoContext /\ ends[s] = 0 /\ Cardinality({}) = 0
    BY <1>3, FS_EmptySet
  <2> QED
    BY <2>1, <2>2 DEF SessionInv, ToldInv, Remember!Recorded, Remember!NoRow,
      Remember!NoContext
<1>5. SessionsInv
  <2>1. /\ conn \in [Sessions -> [phase : Phases, known : BOOLEAN]]
        /\ row \in [Sessions -> {row[s] : s \in Sessions}]
        /\ turns \in [Sessions -> Nat] /\ ends \in [Sessions -> Nat]
        /\ context \in [Sessions -> {context[s] : s \in Sessions}]
    BY <1>3 DEF Phases
  <2>2. summaries \in Seq(Entry) /\ DOMAIN summaries = {}
    BY <1>3
  <2> QED
    BY <1>4, <2>1, <2>2 DEF SessionsInv
<1> QED
  BY <1>1, <1>2, <1>5 DEF MemoryInv

LEMMA MemoryKeepsInv ==
  ASSUME Migrations \in Nat, \A r \in Sessions : UserOf(r) # "null", MemoryInv, MemoryStep
  PROVE  MemoryInv'
BY SchemaKeepsInv, FactsKeepInv, SessionsKeepInv DEF MemoryInv

LEMMA RowsAlwaysAgree ==
  ASSUME SessionsInv
  PROVE  Remember!RowsAgree
<1>1. /\ conn \in [Sessions -> [phase : Phases, known : BOOLEAN]]
      /\ \A s \in Sessions : SessionInv(s)
      /\ \A i \in DOMAIN summaries : SummaryInv(i)
  BY DEF SessionsInv
<1>2. ASSUME NEW s \in Sessions
      PROVE  /\ Remember!Recorded(s) => row[s].user = UserOf(s) /\ UserOf(s) \in users
             /\ turns[s] > 0 => Remember!Recorded(s)
             /\ Remember!Cardinality(SummedUp(s))
                  <= ends[s] + (IF conn[s].phase = "closed" THEN 1 ELSE 0)
             /\ conn[s].phase = "closed" /\ turns[s] > 0 /\ s \notin skipped =>
                  \E i \in SummedUp(s) : summaries[i].turns = turns[s]
             /\ conn[s].phase = "closed" /\ Remember!Recorded(s) /\ s \notin skipped =>
                  row[s].reason = "connection_closed"
             /\ row[s].reason = "user_ended" =>
                  ends[s] > 0 /\ (conn[s].phase \in {"ending", "lost"} \/ s \in skipped)
  <2>1. SessionInv(s) /\ conn[s].phase \in Phases
    BY <1>1
  <2>2. /\ Remember!Recorded(s) => row[s].user = UserOf(s) /\ UserOf(s) \in users
                                   /\ row[s].reason # "absent"
        /\ turns[s] > 0 => Remember!Recorded(s)
    BY <2>1 DEF SessionInv, Remember!Recorded
  <2>3. Remember!Cardinality(SummedUp(s))
          <= ends[s] + (IF conn[s].phase = "closed" THEN 1 ELSE 0)
    BY <2>1, RememberSame DEF SessionInv
  <2>4. row[s].reason = "user_ended" =>
          ends[s] > 0 /\ (conn[s].phase \in {"ending", "lost"} \/ s \in skipped)
    <3>1. ends[s] \in Nat
      BY DEF SessionsInv
    <3> QED
      BY <2>1, <3>1 DEF SessionInv, Phases
  <2> QED
    BY <2>1, <2>2, <2>3, <2>4 DEF SessionInv
<1>3. ASSUME NEW i \in DOMAIN summaries
      PROVE  /\ summaries[i].user = UserOf(summaries[i].session)
             /\ summaries[i].turns \in 1..turns[summaries[i].session]
             /\ \A j \in 1..i : summaries[j].session = summaries[i].session =>
                                  summaries[j].turns <= summaries[i].turns
  BY <1>1 DEF SummaryInv
<1> QED
  BY <1>2, <1>3 DEF Remember!RowsAgree, SummedUp

LEMMA ReturningIsAlwaysTold ==
  ASSUME SessionsInv
  PROVE  Remember!ReturningIsTold
<1> SUFFICES ASSUME NEW s \in Sessions
             PROVE  /\ context[s].returning => Remember!PreviousSessions(s) # {}
                    /\ context[s].told =>
                         Remember!LastSummaries(s) # {} \/ Remember!RecentHistory(s) # {}
                    /\ Remember!LastSummaries(s) # {} => Remember!SessionContext(s).told
  BY DEF Remember!ReturningIsTold
<1>1. ToldInv(s)
  BY DEF SessionsInv
<1> QED
  BY <1>1 DEF ToldInv, Remember!SessionContext

LEMMA MemoriesAreSound ==
  ASSUME Recalled \in Nat \ {0}, MemoryInv
  PROVE  Remember!MemorySound
<1>1. Remember!SchemaOpens
  BY DEF MemoryInv, SchemaInv, Remember!SchemaOpens
<1> QED
  BY <1>1, FactsStayOwn, RowsAlwaysAgree, ReturningIsAlwaysTold
  DEF MemoryInv, Remember!MemorySound

-----------------------------------------------------------------------------
(* Reports.                                                                   *)

ReportStep == [Report!Next]_reportVars

LEMMA ReportSame ==
  /\ \A S : Report!Cardinality(S) = Cardinality(S)
  /\ \A seq, I : Report!Picked(seq, I) = Picked(seq, I)
  /\ \A f : Report!Range(f) = Range(f)
  /\ \A S, order : Report!Ranked(S, order) = Ranked(S, order)
  /\ \A S, sc : Report!MostFirst(S, sc) = MostFirst(S, sc)
  /\ \A seq, max : Report!Slice(seq, max) = Slice(seq, max)
  /\ \A f : Report!SumFunction(f) = SumFunction(f)
<1>1. /\ \A S : Report!Cardinality(S) = Cardinality(S)
      /\ \A seq, I : Report!Picked(seq, I) = Picked(seq, I)
      /\ \A f : Report!Range(f) = Range(f)
      /\ \A S, order : Report!Ranked(S, order) = Ranked(S, order)
      /\ \A S, sc : Report!MostFirst(S, sc) = MostFirst(S, sc)
      /\ \A seq, max : Report!Slice(seq, max) = Slice(seq, max)
  BY DEF Report!Cardinality, Cardinality, Report!Picked, Picked, Report!Ranked, Ranked,
    Report!Ascending, Ascending, Report!Range, Range, Report!MostFirst, MostFirst,
    Report!Slice, Slice
<1>2. \A f : Report!SumFunction(f) = SumFunction(f)
  BY DEF Report!SumFunction, Report!SumFunctionOnSet, Report!FoldFunctionOnSet,
    Report!MapThenFoldSet, SumFunction, SumFunctionOnSet, FoldFunctionOnSet, MapThenFoldSet
<1> QED
  BY <1>1, <1>2

-----------------------------------------------------------------------------
(* The monitor of latencies.                                                  *)

Sample == [value : Values, at : Int]

\* Of what was heard, the first L are no longer counted.
CountedFrom(L) ==
  /\ L \in Nat /\ Len(heard) = L + Len(samples)
  /\ \A i \in 1..Len(samples) : samples[i] = heard[L + i]
  /\ \A i \in 1..L : ~(heard[i].at >= heardAt - SlaWindow)

LatencyInv ==
  /\ clock \in Nat /\ heardAt \in 0..clock
  /\ heard \in Seq(Sample) /\ samples \in Seq(Sample)
  /\ \E L \in Nat : CountedFrom(L)

\* A subset of 1..n that holds all that follow one of its elements is an end of it.
LEMMA UpperPart ==
  ASSUME NEW n \in Nat, NEW K, K \subseteq 1..n, \A i, j \in 1..n : i \in K /\ i < j => j \in K
  PROVE  /\ Cardinality(K) \in 0..n
         /\ \A i \in 1..n : i \in K <=> i > n - Cardinality(K)
<1>1. CASE K = {}
  <2>1. Cardinality(K) = 0
    BY <1>1, FS_EmptySet
  <2> QED
    BY <1>1, <2>1
<1>2. CASE K # {}
  <2>0. K \subseteq Nat
    OBVIOUS
  <2>1. PICK k \in K : \A m \in K : k <= m
    BY <1>2, <2>0, LeastNumber
  <2>2. k \in 1..n /\ K = k..n
    <3>1. k \in 1..n /\ \A i \in K : i \in k..n
      BY <2>1
    <3>2. ASSUME NEW i \in k..n PROVE i \in K
      <4>1. i \in 1..n /\ (i = k \/ k < i)
        BY <3>1
      <4> QED
        BY <2>1, <3>1, <4>1
    <3> QED
      BY <3>1, <3>2
  <2>3. Cardinality(k..n) = n - k + 1
    BY <2>2, FS_Interval
  <2> QED
    BY <2>2, <2>3
<1> QED
  BY <1>1, <1>2

LEMMA SampleKeepsInv ==
  ASSUME LatencyInv, SlaWindow \in Int, NEW value \in Values, NEW at \in 0..clock,
         Report!RecordSample(value, at)
  PROVE  LatencyInv'
<1> DEFINE x == [value |-> value, at |-> at]
           b == Append(samples, x)
           n == Len(b)
           K == {i \in DOMAIN b : \E j \in 1..i : b[j].at >= clock - SlaWindow}
           c == Cardinality(K)
           h == Append(heard, x)
<1>1. /\ samples' = SubSeq(b, n - c + 1, n) /\ heard' = h
      /\ heardAt' = clock /\ clock' = clock
  BY ReportSame DEF Report!RecordSample, Report!Pruned
<1>2. clock \in Nat /\ heardAt \in 0..clock /\ heard \in Seq(Sample) /\ samples \in Seq(Sample)
  BY DEF LatencyInv
<1>3. PICK L \in Nat : CountedFrom(L)
  BY DEF LatencyInv
<1>4. x \in Sample /\ x.at = at
  BY <1>2 DEF Sample
<1> HIDE DEF x
<1>5. /\ b \in Seq(Sample) /\ n = Len(samples) + 1 /\ DOMAIN b = 1..n /\ n \in Nat
      /\ Len(samples) \in Nat /\ b[n] = x /\ \A i \in 1..Len(samples) : b[i] = samples[i]
  BY <1>2, <1>4, AppendProperties, LenProperties
<1>6. /\ h \in Seq(Sample) /\ Len(h) = Len(heard) + 1 /\ h[Len(heard) + 1] = x
      /\ Len(heard) \in Nat /\ \A i \in 1..Len(heard) : h[i] = heard[i]
  BY <1>2, <1>4, AppendProperties, LenProperties
<1> HIDE DEF b, n, h
<1>7. Len(heard) = L + Len(samples) /\ Len(h) = L + n
  BY <1>3, <1>5, <1>6 DEF CountedFrom
<1>8. \A i \in 1..n : b[i] = h[L + i]
  <2> TAKE i \in 1..n
  <2>1. CASE i = n
    <3>1. L + i = Len(heard) + 1
      BY <1>5, <1>7, <2>1
    <3> QED
      BY <1>5, <1>6, <2>1, <3>1
  <2>2. CASE i \in 1..Len(samples)
    <3>1. L + i \in 1..Len(heard)
      BY <1>5, <1>7, <2>2
    <3> QED
      BY <1>3, <1>5, <1>6, <2>2, <3>1 DEF CountedFrom
  <2> QED
    BY <1>5, <2>1, <2>2
<1>9. K \subseteq 1..n /\ \A i, j \in 1..n : i \in K /\ i < j => j \in K
  <2>1. K \subseteq 1..n
    BY <1>5
  <2>2. ASSUME NEW i \in 1..n, NEW j \in 1..n, i \in K, i < j PROVE j \in K
    <3>1. PICK k \in 1..i : b[k].at >= clock - SlaWindow
      BY <2>2
    <3>2. k \in 1..j
      BY <2>2
    <3> QED
      BY <1>5, <3>1, <3>2
  <2> QED
    BY <2>1, <2>2
<1>10. \A i \in 1..n : b[i].at >= clock - SlaWindow => i \in K
  <2> TAKE i \in 1..n
  <2>1. i \in 1..i
    OBVIOUS
  <2> QED
    BY <1>5, <2>1
<1> HIDE DEF K
<1>11. c \in 0..n /\ \A i \in 1..n : i \in K <=> i > n - c
  BY <1>5, <1>9, UpperPart
<1> HIDE DEF c
<1> DEFINE s == SubSeq(b, n - c + 1, n)
<1>12. s \in Seq(Sample) /\ Len(s) = c /\ \A i \in 1..c : s[i] = b[n - c + i]
  <2>1. n - c + 1 \in Int /\ n \in Int
    BY <1>5, <1>11
  <2>2. \A i \in (n - c + 1)..n : b[i] \in Sample
    <3>1. \A i \in (n - c + 1)..n : i \in 1..n
      BY <1>5, <1>11
    <3>2. \A i \in 1..n : b[i] \in Sample
      BY <1>5, ElementOfSeq DEF n
    <3> QED
      BY <3>1, <3>2
  <2>3. /\ s \in Seq(Sample)
        /\ Len(s) = IF n - c + 1 <= n THEN n - (n - c + 1) + 1 ELSE 0
        /\ \A i \in 1..(n - (n - c + 1) + 1) : s[i] = b[(n - c + 1) + i - 1]
    BY <2>1, <2>2, SubSeqProperties
  <2>4. n - (n - c + 1) + 1 = c /\ (~(n - c + 1 <= n) => c = 0)
        /\ \A i \in 1..c : (n - c + 1) + i - 1 = n - c + i
    BY <1>5, <1>11
  <2> HIDE DEF s
  <2> QED
    BY <2>3, <2>4
<1> HIDE DEF s
<1>13. samples' = s /\ heard' = h
  BY <1>1 DEF s
<1> DEFINE M == L + (n - c)
<1>14. M \in Nat /\ Len(h) = M + c
  BY <1>5, <1>7, <1>11
<1>15. \A i \in 1..c : s[i] = h[M + i]
  <2> TAKE i \in 1..c
  <2>1. n - c + i \in 1..n /\ L + (n - c + i) = M + i
    BY <1>5, <1>11
  <2>2. b[n - c + i] = h[L + (n - c + i)]
    BY <1>8, <2>1
  <2> QED
    BY <1>12, <2>1, <2>2
<1>16. \A i \in 1..M : ~(h[i].at >= clock - SlaWindow)
  <2> SUFFICES ASSUME NEW i \in 1..M, h[i].at >= clock - SlaWindow PROVE FALSE
    OBVIOUS
  <2>1. CASE i \in 1..L
    <3>1. i \in 1..Len(heard)
      BY <1>5, <1>7, <2>1
    <3>2. h[i] = heard[i] /\ heard[i] \in Sample
      BY <1>2, <1>6, <3>1, ElementOfSeq
    <3>3. heard[i].at \in Int
      BY <3>2 DEF Sample
    <3>4. heard[i].at >= heardAt - SlaWindow
      BY <1>2, <3>2, <3>3
    <3> QED
      BY <1>3, <2>1, <3>4 DEF CountedFrom
  <2>2. CASE i \notin 1..L
    <3> DEFINE j == i - L
    <3>1. j \in 1..n /\ L + j = i /\ ~(j > n - c)
      BY <1>5, <1>11, <1>14, <2>2
    <3> HIDE DEF j
    <3>2. b[j] = h[i]
      BY <1>8, <3>1
    <3>3. j \in K
      BY <1>10, <3>1, <3>2
    <3> QED
      BY <1>11, <3>1, <3>3
  <2> QED
    BY <2>1, <2>2
<1> HIDE DEF M
<1>17. PICK m \in Nat : m = M
  BY <1>14
<1>18. CountedFrom(m)'
  <2>1. Len(h) = m + c /\ (\A i \in 1..c : s[i] = h[m + i])
        /\ \A i \in 1..m : ~(h[i].at >= clock - SlaWindow)
    BY <1>14, <1>15, <1>16, <1>17
  <2> QED
    BY <1>1, <1>12, <1>13, <2>1 DEF CountedFrom
<1>19. clock' \in Nat /\ heardAt' \in 0..clock'
  BY <1>1, <1>2
<1>20. heard' \in Seq(Sample) /\ samples' \in Seq(Sample)
  BY <1>6, <1>12, <1>13
<1>21. \E i \in Nat : CountedFrom(i)'
  BY <1>18
<1> QED
  BY <1>19, <1>20, <1>21 DEF LatencyInv

LEMMA LatenciesKeepInv ==
  ASSUME LatencyInv, SlaWindow \in Int, ReportStep
  PROVE  LatencyInv'
<1>1. CASE Report!Tick
  <2>1. clock' = clock + 1 /\ UNCHANGED <<samples, heard, heardAt>>
    BY <1>1 DEF Report!Tick
  <2>2. \A L \in Nat : CountedFrom(L) => CountedFrom(L)'
    BY <2>1 DEF CountedFrom
  <2> QED
    BY <2>1, <2>2 DEF LatencyInv
<1>2. CASE Report!ClearSamples
  <2>1. samples' = <<>> /\ heard' = <<>> /\ UNCHANGED <<clock, heardAt>>
    BY <1>2 DEF Report!ClearSamples
  <2>2. CountedFrom(0)' /\ <<>> \in Seq(Sample)
    BY <2>1 DEF CountedFrom
  <2> QED
    BY <2>1, <2>2 DEF LatencyInv
<1>3. CASE Report!RecordsNext \/ Report!PlanNext \/ UNCHANGED reportVars
  <2>1. UNCHANGED <<samples, clock, heard, heardAt>>
    BY <1>3 DEF Report!RecordsNext, Report!PlanNext, Report!Record, Report!PruneOldRecordings,
      Report!GenerateReport, Report!PostCalculate, Report!slaVars, reportVars
  <2>2. \A L \in Nat : CountedFrom(L) => CountedFrom(L)'
    BY <2>1 DEF CountedFrom
  <2> QED
    BY <2>1, <2>2 DEF LatencyInv
<1> QED
  BY <1>1, <1>2, <1>3, SampleKeepsInv DEF ReportStep, Report!Next, Report!SlaNext

LEMMA LatenciesAreCounted ==
  ASSUME LatencyInv, SlaWindow \in Int
  PROVE  Report!LatenciesCounted
<1>1. PICK L \in Nat : CountedFrom(L)
  BY DEF LatencyInv
<1> DEFINE n == Len(samples)
           m == Len(heard)
           t == SubSeq(heard, L + 1, m)
<1>2. heard \in Seq(Sample) /\ samples \in Seq(Sample) /\ n \in Nat /\ m = L + n
      /\ DOMAIN heard = 1..m
  BY <1>1, LenProperties DEF LatencyInv, CountedFrom
<1>3. samples = t
  <2> HIDE DEF n, m
  <2>1. \A i \in (L + 1)..m : heard[i] \in Sample
    <3>1. \A i \in (L + 1)..m : i \in 1..m
      BY <1>2
    <3> QED
      BY <1>2, <3>1, ElementOfSeq DEF m
  <2>2. L + 1 \in Int /\ m \in Int
    BY <1>2
  <2>3. /\ t \in Seq(Sample) /\ Len(t) = IF L + 1 <= m THEN m - (L + 1) + 1 ELSE 0
        /\ \A i \in 1..(m - (L + 1) + 1) : t[i] = heard[(L + 1) + i - 1]
    BY <2>1, <2>2, SubSeqProperties
  <2> HIDE DEF t
  <2>4. m - (L + 1) + 1 = n /\ (~(L + 1 <= m) => n = 0)
        /\ \A i \in 1..n : (L + 1) + i - 1 = L + i
    BY <1>2
  <2>5. Len(t) = n /\ \A i \in 1..n : t[i] = heard[L + i]
    BY <2>3, <2>4
  <2>6. \A i \in 1..n : samples[i] = t[i]
    BY <1>1, <2>5 DEF CountedFrom, n
  <2> QED
    BY <1>2, <2>3, <2>5, <2>6, SeqEqual DEF n
<1>4. m - n = L /\ m - n + 1 = L + 1
  <2> HIDE DEF n, m
  <2> QED
    BY <1>2
<1>5. \A i \in 1..m : heard[i].at >= heardAt - SlaWindow => i > L
  <2> SUFFICES ASSUME NEW i \in 1..m, heard[i].at >= heardAt - SlaWindow, ~(i > L) PROVE FALSE
    BY DEF CountedFrom
  <2>1. i \in 1..L
    OBVIOUS
  <2> QED
    BY <1>1, <2>1 DEF CountedFrom
<1> QED
  BY <1>2, <1>3, <1>4, <1>5 DEF Report!LatenciesCounted

-----------------------------------------------------------------------------
(* The capacity planner.                                                      *)

PlanInv == load \in Int /\ Report!PlanCarriesLoad

LEMMA HalfIsMore ==
  ASSUME NEW n \in Nat
  PROVE  Report!Half(n)[1] <= Report!Half(n)[2]
BY DEF Report!Half, Report!Ceil

LEMMA PlanKeepsInv ==
  ASSUME PlanInv, Loads \subseteq Int, ReportStep
  PROVE  PlanInv'
<1>1. ASSUME NEW i \in Report!Inputs, Report!PostCalculate(i) PROVE PlanInv'
  <2>1. /\ i.sessions \in Int /\ i.rag \in 0..1 /\ i.sentiment \in 0..1 /\ i.policy \in 0..1
        /\ i.sessions > 0
    BY <1>1 DEF Report!Inputs, Report!PostCalculate
  <2> DEFINE s == i.sessions
             a == Report!CalculateCpu(i)
             b == Report!CalculateRam(i)
             c == Report!CalculateNetwork(i)
             d == Report!BuildKubernetesSpec(i)
  <2>2. a[1] <= a[2]
    <3> DEFINE x == i.sessions * (2 + i.sentiment + i.policy) + 20 * i.rag
               n == Report!Greater(2, Report!Ceil(x, 20))
    <3>1. x \in Int
      BY <2>1
    <3> HIDE DEF x
    <3>2. n \in Nat
      BY <3>1 DEF Report!Greater, Report!Ceil
    <3>3. a = Report!Half(n)
      BY DEF Report!CalculateCpu, x
    <3> HIDE DEF n, a
    <3> QED
      BY <3>2, <3>3, HalfIsMore
  <2>3. b[1] <= b[2]
    <3> DEFINE x == i.sessions * (512 + 256 * i.rag + 128 * i.sentiment)
                      + 10 * (1536 + 2048 * i.rag)
               gb == Report!Ceil(x, 10240)
    <3>1. x \in Nat
      <4> DEFINE y == 512 + 256 * i.rag + 128 * i.sentiment
      <4>1. y \in Nat /\ 10 * (1536 + 2048 * i.rag) \in Nat
        BY <2>1
      <4> HIDE DEF y
      <4>2. i.sessions \in Nat
        BY <2>1
      <4>3. i.sessions * y \in Nat
        BY <4>1, <4>2
      <4> QED
        BY <4>1, <4>3 DEF y
    <3> HIDE DEF x
    <3>2. gb \in Nat
      BY <3>1 DEF Report!Ceil
    <3>3. b = <<gb, Report!Rounded(3 * gb, 2)>>
      BY DEF Report!CalculateRam, x
    <3> HIDE DEF gb
    <3>4. gb <= Report!Rounded(3 * gb, 2)
      BY <3>2 DEF Report!Rounded
    <3> QED
      BY <3>3, <3>4
  <2>4. c[1] <= c[2]
    <3> DEFINE y == 768 * s + 10000
    <3>1. y \in Nat
      BY <2>1
    <3>2. c = <<Report!Ceil(y, 1000), Report!Ceil(3 * y, 2000)>>
      BY DEF Report!CalculateNetwork
    <3> HIDE DEF y
    <3>3. Report!Ceil(y, 1000) <= Report!Ceil(3 * y, 2000)
      BY <3>1 DEF Report!Ceil
    <3> QED
      BY <3>2, <3>3
  <2>5. d[1] <= d[2] /\ 20 * d[1] >= s
    <3> DEFINE pods == Report!Greater(2, Report!Ceil(s, 20))
    <3>1. pods \in Nat /\ 20 * pods >= s
      BY <2>1 DEF Report!Greater, Report!Ceil
    <3>2. d = <<pods, 3 * pods>>
      BY DEF Report!BuildKubernetesSpec
    <3> HIDE DEF pods
    <3> QED
      BY <3>1, <3>2
  <2>6. load' = s /\ plan' = [cores |-> a, ram |-> b, mbps |-> c, pods |-> d]
    BY <1>1 DEF Report!PostCalculate, Report!Calculate
  <2> HIDE DEF a, b, c, d
  <2>7. /\ DOMAIN plan' = {"cores", "ram", "mbps", "pods"} /\ plan'["cores"] = a
        /\ plan'["ram"] = b /\ plan'["mbps"] = c /\ plan'["pods"] = d /\ plan'.pods = d
    BY <2>6
  <2> QED
    BY <2>1, <2>2, <2>3, <2>4, <2>5, <2>6, <2>7 DEF PlanInv, Report!PlanCarriesLoad
<1>2. CASE Report!RecordsNext \/ Report!SlaNext \/ UNCHANGED reportVars
  <2>1. UNCHANGED <<load, plan>>
    BY <1>2 DEF Report!RecordsNext, Report!SlaNext, Report!Record, Report!PruneOldRecordings,
      Report!GenerateReport, Report!RecordSample, Report!Tick, Report!ClearSamples,
      Report!planVars, reportVars
  <2> QED
    BY <2>1 DEF PlanInv, Report!PlanCarriesLoad
<1> QED
  BY <1>1, <1>2 DEF ReportStep, Report!Next, Report!PlanNext

-----------------------------------------------------------------------------
(* Recordings. None begins with the start of its session, and a number is     *)
(* given once.                                                                *)

AllEvents == UNION {{c.events[i] : i \in DOMAIN c.events} : c \in Calls}

WellKept(r) ==
  r.timeline \in Seq(AllEvents \ {"start"}) /\ r.duration \in Int /\ r.tenant # "any"

FilesInv ==
  /\ begun \in 0..MaxRecordings
  /\ DOMAIN recordings \subseteq 1..begun
  /\ \A i \in DOMAIN recordings : WellKept(recordings[i])

LEMMA HeardIsTheRest ==
  ASSUME CallsAreGiven, NEW talk \in Calls
  PROVE  Report!Heard(talk) = talk.events /\ talk.events \in Seq(AllEvents \ {"start"})
<1> DEFINE e == talk.events
           V == AllEvents \union {"start"}
           s == <<"start">>
           b == s \o e
<1>1. e \in Seq(AllEvents \ {"start"})
  <2>1. e \in Seq({e[i] : i \in DOMAIN e} \ {"start"})
    BY DEF CallsAreGiven
  <2>2. {e[i] : i \in DOMAIN e} \ {"start"} \subseteq AllEvents \ {"start"}
    BY DEF AllEvents
  <2> QED
    BY <2>1, <2>2, SeqMonotonic
<1>2. e \in Seq(V)
  <2>1. AllEvents \ {"start"} \subseteq V
    OBVIOUS
  <2> QED
    BY <1>1, <2>1, SeqMonotonic
<1>3. s \in Seq(V) /\ Len(s) = 1 /\ s[1] = "start"
  OBVIOUS
<1> HIDE DEF s, e, V
<1>4. /\ b \in Seq(V) /\ Len(b) = Len(s) + Len(e)
      /\ \A i \in 1..(Len(s) + Len(e)) : b[i] = IF i <= Len(s) THEN s[i] ELSE e[i - Len(s)]
  <2>1. e \in Seq(V) /\ s \in Seq(V)
    BY <1>2, <1>3
  <2> QED
    BY <2>1, ConcatProperties
<1>5. Len(e) \in Nat
  BY <1>2, LenProperties
<1> HIDE DEF b
<1>6. b # <<>>
  BY <1>3, <1>4, <1>5, EmptySeq
<1>7. /\ Tail(b) \in Seq(V) /\ Len(Tail(b)) = Len(b) - 1
      /\ \A i \in 1..Len(Tail(b)) : Tail(b)[i] = b[i + 1]
  BY <1>4, <1>6, HeadTailProperties
<1>8. Len(Tail(b)) = Len(e)
  BY <1>3, <1>4, <1>5, <1>7
<1>9. \A i \in 1..Len(e) : Tail(b)[i] = e[i]
  <2> TAKE i \in 1..Len(e)
  <2>1. i + 1 \in 1..(Len(s) + Len(e)) /\ ~(i + 1 <= Len(s)) /\ i + 1 - Len(s) = i
    BY <1>3, <1>5
  <2> QED
    BY <1>4, <1>7, <1>8, <2>1
<1>10. Tail(b) = e
  BY <1>2, <1>7, <1>8, <1>9, SeqEqual
<1> QED
  BY <1>1, <1>10 DEF Report!Heard, Report!Bus, b, s, e

LEMMA FilesKeepInv ==
  ASSUME FilesInv, CallsAreGiven, MaxRecordings \in Nat, ReportStep
  PROVE  FilesInv' /\ begun <= begun'
                   /\ \A i \in DOMAIN recordings' : \/ i \notin 1..begun
                                                    \/ /\ i \in DOMAIN recordings
                                                       /\ recordings'[i] = recordings[i]
<1>1. ASSUME NEW talk \in Calls, Report!Record(talk)
      PROVE  FilesInv' /\ begun <= begun'
                   /\ \A i \in DOMAIN recordings' : \/ i \notin 1..begun
                                                    \/ /\ i \in DOMAIN recordings
                                                       /\ recordings'[i] = recordings[i]
  <2> DEFINE n == begun + 1
             r == [tenant |-> talk.tenant, timeline |-> Report!Heard(talk),
                   duration |-> talk.duration, mood |-> talk.mood,
                   topic |-> talk.topic, question |-> talk.question]
  <2>1. /\ begun < MaxRecordings /\ begun' = n
        /\ recordings' = [i \in DOMAIN recordings \union {n} |-> IF i = n THEN r ELSE recordings[i]]
    BY <1>1 DEF Report!Record
  <2>2. WellKept(r)
    BY HeardIsTheRest DEF WellKept, CallsAreGiven
  <2> HIDE DEF r
  <2>3. /\ n \in 0..MaxRecordings /\ n \in 1..n /\ 1..begun \subseteq 1..n /\ n \notin 1..begun
        /\ begun <= n
    BY <2>1 DEF FilesInv
  <2>4. DOMAIN recordings' = DOMAIN recordings \union {n}
        /\ \A i \in DOMAIN recordings' : recordings'[i] = IF i = n THEN r ELSE recordings[i]
    BY <2>1
  <2> HIDE DEF n
  <2>5. \A i \in DOMAIN recordings' : WellKept(recordings'[i])
    BY <2>2, <2>4 DEF FilesInv
  <2> QED
    BY <2>1, <2>3, <2>4, <2>5 DEF FilesInv
<1>2. ASSUME NEW cutoff \in 2..MaxRecordings, Report!PruneOldRecordings(cutoff)
      PROVE  FilesInv' /\ begun <= begun'
                   /\ \A i \in DOMAIN recordings' : \/ i \notin 1..begun
                                                    \/ /\ i \in DOMAIN recordings
                                                       /\ recordings'[i] = recordings[i]
  <2>1. /\ begun' = begun
        /\ recordings' = [i \in {j \in DOMAIN recordings : j >= cutoff} |-> recordings[i]]
    BY <1>2 DEF Report!PruneOldRecordings
  <2>2. /\ DOMAIN recordings' \subseteq DOMAIN recordings
        /\ \A i \in DOMAIN recordings' : recordings'[i] = recordings[i]
    BY <2>1
  <2>3. begun <= begun'
    BY <2>1 DEF FilesInv
  <2> QED
    BY <2>1, <2>2, <2>3 DEF FilesInv
<1>3. CASE \/ \E t \in Customers, month \in Report!Months : Report!GenerateReport(t, month)
           \/ Report!SlaNext \/ Report!PlanNext \/ UNCHANGED reportVars
  <2>1. UNCHANGED <<recordings, begun>>
    BY <1>3 DEF Report!GenerateReport, Report!SlaNext, Report!PlanNext, Report!RecordSample,
      Report!Tick, Report!ClearSamples, Report!PostCalculate, Report!recordVars, reportVars
  <2>2. begun <= begun'
    BY <2>1 DEF FilesInv
  <2> QED
    BY <2>1, <2>2 DEF FilesInv
<1> QED
  BY <1>1, <1>2, <1>3 DEF ReportStep, Report!Next, Report!RecordsNext

-----------------------------------------------------------------------------
(* What is counted in recordings.                                             *)

LEMMA CountsAreNumbers ==
  ASSUME NEW r, WellKept(r)
  PROVE  /\ \A d : Report!Count(r, d) \in Nat
         /\ \A d : Report!Count(r, d) > 0 <=> d \in Range(r.timeline)
         /\ Report!Complying(r) \in Nat /\ Report!Decisions(r) \in Nat /\ Report!Turns(r) \in Nat
<1>1. ASSUME NEW d
      PROVE  /\ Report!Count(r, d) \in Nat
             /\ Report!Count(r, d) > 0 <=> d \in Range(r.timeline)
  <2> DEFINE I == {i \in DOMAIN r.timeline : r.timeline[i] = d}
             n == Len(r.timeline)
  <2>1. n \in Nat /\ DOMAIN r.timeline = 1..n
    BY LenProperties DEF WellKept
  <2>2. IsFiniteSet(1..n) /\ I \subseteq 1..n
    BY <2>1, FS_Interval
  <2>3. Report!Count(r, d) = Cardinality(I) /\ (I # {} <=> d \in Range(r.timeline))
    BY ReportSame DEF Report!Count, Range
  <2> HIDE DEF I
  <2>4. IsFiniteSet(I)
    BY <2>2, FS_Subset
  <2>5. Cardinality(I) \in Nat /\ (Cardinality(I) = 0 <=> I = {})
    BY <2>4, FS_CardinalityType, FS_EmptySet
  <2> QED
    BY <2>3, <2>5
<1> QED
  BY <1>1 DEF Report!Complying, Report!Decisions, Report!Turns

LEMMA RecordingsAreFinite ==
  ASSUME FilesInv, MaxRecordings \in Nat
  PROVE  /\ IsFiniteSet(DOMAIN recordings) /\ DOMAIN recordings \subseteq 1..MaxRecordings
         /\ \A S \in SUBSET DOMAIN recordings :
              /\ IsFiniteSet(S) /\ Cardinality(S) \in Nat /\ S \subseteq Int
              /\ Cardinality(S) = 0 <=> S = {}
<1>1. DOMAIN recordings \subseteq 1..MaxRecordings /\ IsFiniteSet(1..MaxRecordings)
  BY FS_Interval DEF FilesInv
<1>2. IsFiniteSet(DOMAIN recordings)
  BY <1>1, FS_Subset
<1>3. ASSUME NEW S \in SUBSET DOMAIN recordings
      PROVE  /\ IsFiniteSet(S) /\ Cardinality(S) \in Nat /\ S \subseteq Int
             /\ Cardinality(S) = 0 <=> S = {}
  <2>1. IsFiniteSet(S)
    BY <1>2, FS_Subset
  <2> QED
    BY <1>1, <2>1, FS_CardinalityType, FS_EmptySet
<1> QED
  BY <1>1, <1>2, <1>3

\* A sum over some recordings is that of a function of all of them.
LEMMA SumIn ==
  ASSUME NEW S, NEW T, T \subseteq S, NEW f, Summed(f, S), NEW g, DOMAIN g = T,
         \A i \in T : g[i] = f[i]
  PROVE  /\ Report!SumFunction(g) = SumFunctionOnSet(f, T)
         /\ SumFunctionOnSet(f, T) \in Int /\ Summed(f, T)
<1>1. Summed(f, T)
  BY FS_Subset DEF Summed
<1>2. SumFunctionOnSet(f, T) = SumFunctionOnSet(g, T)
  BY <1>1, SumOfSame
<1>3. Report!SumFunction(g) = SumFunctionOnSet(g, T)
  BY ReportSame DEF SumFunction
<1> QED
  BY <1>1, <1>2, <1>3, SumOfChosen

Files == DOMAIN recordings
CountOf(d) == [i \in Files |-> Report!Count(recordings[i], d)]
DecisionsOf == [i \in Files |-> Report!Decisions(recordings[i])]

LEMMA SumsInFiles ==
  ASSUME FilesInv, MaxRecordings \in Nat, NEW S \in SUBSET Files
  PROVE  /\ \A d : /\ Summed(CountOf(d), Files) /\ Summed(CountOf(d), S)
                   /\ Report!CountIn(d, S) = SumFunctionOnSet(CountOf(d), S)
         /\ Summed(DecisionsOf, Files) /\ Summed(DecisionsOf, S)
         /\ Report!DecisionsIn(S) = SumFunctionOnSet(DecisionsOf, S)
         /\ SumFunctionOnSet(DecisionsOf, S) =
              SumFunctionOnSet(CountOf("allow"), S) + SumFunctionOnSet(CountOf("rewrite"), S)
                + SumFunctionOnSet(CountOf("refuse"), S) + SumFunctionOnSet(CountOf("escalate"), S)
<1>1. \A i \in Files : WellKept(recordings[i])
  BY DEF FilesInv, Files
<1>2. IsFiniteSet(Files)
  BY RecordingsAreFinite DEF Files
<1>3. ASSUME NEW d
      PROVE  /\ Summed(CountOf(d), Files) /\ Summed(CountOf(d), S)
             /\ Report!CountIn(d, S) = SumFunctionOnSet(CountOf(d), S)
  <2> DEFINE g == [i \in S |-> Report!Count(recordings[i], d)]
  <2>1. Summed(CountOf(d), Files)
    BY <1>1, <1>2, CountsAreNumbers DEF Summed, CountOf
  <2>2. DOMAIN g = S /\ \A i \in S : g[i] = CountOf(d)[i]
    BY DEF CountOf
  <2>3. Report!CountIn(d, S) = Report!SumFunction(g)
    BY DEF Report!CountIn
  <2> HIDE DEF g
  <2> QED
    BY <2>1, <2>2, <2>3, SumIn
<1>4. /\ Summed(DecisionsOf, Files) /\ Summed(DecisionsOf, S)
      /\ Report!DecisionsIn(S) = SumFunctionOnSet(DecisionsOf, S)
  <2> DEFINE g == [i \in S |-> Report!Decisions(recordings[i])]
  <2>1. Summed(DecisionsOf, Files)
    BY <1>1, <1>2, CountsAreNumbers DEF Summed, DecisionsOf
  <2>2. DOMAIN g = S /\ \A i \in S : g[i] = DecisionsOf[i]
    BY DEF DecisionsOf
  <2>3. Report!DecisionsIn(S) = Report!SumFunction(g)
    BY DEF Report!DecisionsIn
  <2> HIDE DEF g
  <2> QED
    BY <2>1, <2>2, <2>3, SumIn
<1> DEFINE a == CountOf("allow")
           b == CountOf("rewrite")
           c == CountOf("refuse")
           d == CountOf("escalate")
           ab == [i \in S |-> a[i] + b[i]]
           abc == [i \in S |-> ab[i] + c[i]]
<1>5. Summed(a, S) /\ Summed(b, S) /\ Summed(c, S) /\ Summed(d, S)
  BY <1>3
<1>6. \A i \in S : DecisionsOf[i] = abc[i] + d[i]
  BY DEF DecisionsOf, CountOf, Report!Decisions, Report!Complying
<1> HIDE DEF a, b, c, d
<1>7. Summed(ab, S) /\ \A i \in S : ab[i] = a[i] + b[i]
  BY <1>5 DEF Summed
<1> HIDE DEF ab
<1>8. Summed(abc, S) /\ \A i \in S : abc[i] = ab[i] + c[i]
  BY <1>5, <1>7 DEF Summed
<1> HIDE DEF abc
<1>9. /\ SumFunctionOnSet(ab, S) = SumFunctionOnSet(a, S) + SumFunctionOnSet(b, S)
      /\ SumFunctionOnSet(abc, S) = SumFunctionOnSet(ab, S) + SumFunctionOnSet(c, S)
      /\ SumFunctionOnSet(DecisionsOf, S) = SumFunctionOnSet(abc, S) + SumFunctionOnSet(d, S)
  BY <1>5, <1>6, <1>7, <1>8, SumsAdd
<1>10. SumFunctionOnSet(DecisionsOf, S)
        = SumFunctionOnSet(a, S) + SumFunctionOnSet(b, S)
            + SumFunctionOnSet(c, S) + SumFunctionOnSet(d, S)
  BY <1>9
<1> QED
  BY <1>3, <1>4, <1>10 DEF a, b, c, d

-----------------------------------------------------------------------------
(* Audit reports.                                                             *)

AuditInv(a) ==
  /\ Report!SumFunction(a.qualityBands) = Cardinality(a.sessionIds)
  /\ a.sessionIds \subseteq 1..begun
  /\ \A i \in a.sessionIds : /\ Report!Month(i) = a.month
                             /\ i \in DOMAIN recordings => recordings[i].tenant = a.tenant

AuditsInv == \A a \in audits : AuditInv(a)

LEMMA AuditIsRight ==
  ASSUME FilesInv, MaxRecordings \in Nat, NEW t, NEW month
  PROVE  AuditInv(Report!AuditReport(t, month))
<1> DEFINE ids == {i \in Report!Of(t) : Report!Month(i) = month}
           band == [i \in ids |-> Report!Band(Report!Score(recordings[i]))]
           g == [b \in Report!Bands |->
                   Cardinality({i \in ids : Report!Band(Report!Score(recordings[i])) = b})]
           a == Report!AuditReport(t, month)
<1>1. /\ a.sessionIds = ids /\ a.month = month /\ a.tenant = t /\ a.qualityBands = g
  BY ReportSame DEF Report!AuditReport
<1>2. /\ ids \subseteq DOMAIN recordings
      /\ \A i \in ids : recordings[i].tenant = t /\ Report!Month(i) = month
  BY DEF Report!Of
<1>3. IsFiniteSet(ids)
  <2> HIDE DEF ids
  <2> QED
    BY <1>2, RecordingsAreFinite
<1>4. \A i \in ids : band[i] \in Report!Bands
  BY DEF Report!Band, Report!Bands
<1>5. IsFiniteSet(Report!Bands)
  BY FourAreFinite DEF Report!Bands
<1>6. \A b \in Report!Bands : g[b] = Cardinality(Those(ids, band, b))
  <2> TAKE b \in Report!Bands
  <2>1. {i \in ids : Report!Band(Report!Score(recordings[i])) = b} = Those(ids, band, b)
    BY DEF Those
  <2> QED
    BY <2>1
<1>7. DOMAIN g = Report!Bands
  OBVIOUS
<1> HIDE DEF ids, band, g, a
<1>8. Summed(g, Report!Bands) /\ SumFunctionOnSet(g, Report!Bands) = Cardinality(ids)
  BY <1>3, <1>4, <1>5, <1>6, ThoseAreAll
<1>9. Report!SumFunction(g) = Cardinality(ids)
  BY <1>7, <1>8, ReportSame DEF SumFunction
<1> QED
  BY <1>1, <1>2, <1>9 DEF AuditInv, FilesInv, a

LEMMA AuditsKeepInv ==
  ASSUME FilesInv, AuditsInv, CallsAreGiven, MaxRecordings \in Nat, ReportStep
  PROVE  AuditsInv'
<1>1. ASSUME NEW a, AuditInv(a) PROVE AuditInv(a)'
  <2>1. /\ begun <= begun' /\ begun \in Int /\ begun' \in Int
        /\ \A i \in DOMAIN recordings' : \/ i \notin 1..begun
                                         \/ i \in DOMAIN recordings /\ recordings'[i] = recordings[i]
    BY FilesKeepInv DEF FilesInv
  <2>2. a.sessionIds \subseteq 1..begun /\ a.sessionIds \subseteq 1..begun'
    BY <1>1, <2>1 DEF AuditInv
  <2> QED
    BY <1>1, <2>1, <2>2 DEF AuditInv
<1>2. CASE \E t \in Customers, month \in Report!Months : Report!GenerateReport(t, month)
  <2>1. PICK t \in Customers, month \in Report!Months : Report!GenerateReport(t, month)
    BY <1>2
  <2>2. audits' = audits \union {Report!AuditReport(t, month)}
    BY <2>1 DEF Report!GenerateReport
  <2>3. AuditInv(Report!AuditReport(t, month))
    BY AuditIsRight
  <2> QED
    BY <1>1, <2>2, <2>3 DEF AuditsInv
<1>3. CASE \/ \E talk \in Calls : Report!Record(talk)
           \/ \E cutoff \in 2..MaxRecordings : Report!PruneOldRecordings(cutoff)
           \/ Report!SlaNext \/ Report!PlanNext \/ UNCHANGED reportVars
  <2>1. audits' = audits
    BY <1>3 DEF Report!Record, Report!PruneOldRecordings, Report!SlaNext, Report!PlanNext,
      Report!RecordSample, Report!Tick, Report!ClearSamples, Report!PostCalculate,
      Report!recordVars, reportVars
  <2> QED
    BY <1>1, <2>1 DEF AuditsInv
<1> QED
  BY <1>2, <1>3 DEF ReportStep, Report!Next, Report!RecordsNext

LEMMA AuditsAlwaysAddUp ==
  ASSUME AuditsInv
  PROVE  Report!AuditsAddUp
BY ReportSame DEF AuditsInv, AuditInv, Report!AuditsAddUp, Report!Of

-----------------------------------------------------------------------------
(* The compliance dashboard.                                                  *)

LEMMA OneMore ==
  ASSUME NEW S, IsFiniteSet(S), NEW n \in Nat, Cardinality(S) = n, NEW x, x \notin S,
         NEW T, T = S \union {x}
  PROVE  IsFiniteSet(T) /\ Cardinality(T) = n + 1
BY FS_AddElement

LEMMA ThirteenRequirements ==
  /\ Report!AllRequirements = {"GDPR-1", "GDPR-2", "GDPR-3", "HIPAA-1", "HIPAA-2", "HIPAA-3",
                               "SOC2-1", "SOC2-2", "SOC2-3", "PCI-1", "PCI-2", "CCPA-1", "CCPA-2"}
  /\ IsFiniteSet(Report!AllRequirements) /\ Cardinality(Report!AllRequirements) = 13
<1> DEFINE S3 == {"GDPR-1", "GDPR-2", "GDPR-3"}
           S6 == {"GDPR-1", "GDPR-2", "GDPR-3", "HIPAA-1", "HIPAA-2", "HIPAA-3"}
           S9 == {"GDPR-1", "GDPR-2", "GDPR-3", "HIPAA-1", "HIPAA-2", "HIPAA-3",
                  "SOC2-1", "SOC2-2", "SOC2-3"}
           S13 == {"GDPR-1", "GDPR-2", "GDPR-3", "HIPAA-1", "HIPAA-2", "HIPAA-3",
                   "SOC2-1", "SOC2-2", "SOC2-3", "PCI-1", "PCI-2", "CCPA-1", "CCPA-2"}
<1>1. Report!AllRequirements = S13
  <2>1. DOMAIN Report!Requirements = {"GDPR", "HIPAA", "SOC2", "PCI_DSS", "CCPA"}
        /\ Report!Requirements["GDPR"] = {"GDPR-1", "GDPR-2", "GDPR-3"}
        /\ Report!Requirements["HIPAA"] = {"HIPAA-1", "HIPAA-2", "HIPAA-3"}
        /\ Report!Requirements["SOC2"] = {"SOC2-1", "SOC2-2", "SOC2-3"}
        /\ Report!Requirements["PCI_DSS"] = {"PCI-1", "PCI-2"}
        /\ Report!Requirements["CCPA"] = {"CCPA-1", "CCPA-2"}
    BY DEF Report!Requirements
  <2> QED
    BY <2>1 DEF Report!AllRequirements
<1>2. IsFiniteSet({"GDPR-1"}) /\ Cardinality({"GDPR-1"}) = 1
  BY FS_Singleton
<1>3. IsFiniteSet({"GDPR-1", "GDPR-2"}) /\ Cardinality({"GDPR-1", "GDPR-2"}) = 2
  BY <1>2, OneMore
<1>4. IsFiniteSet(S3) /\ Cardinality(S3) = 3
  BY <1>3, OneMore
<1>5. IsFiniteSet(S3 \union {"HIPAA-1"}) /\ Cardinality(S3 \union {"HIPAA-1"}) = 4
  BY <1>4, OneMore
<1>6. /\ IsFiniteSet(S3 \union {"HIPAA-1", "HIPAA-2"})
      /\ Cardinality(S3 \union {"HIPAA-1", "HIPAA-2"}) = 5
  BY <1>5, OneMore
<1>7. IsFiniteSet(S6) /\ Cardinality(S6) = 6
  BY <1>6, OneMore
<1>8. IsFiniteSet(S6 \union {"SOC2-1"}) /\ Cardinality(S6 \union {"SOC2-1"}) = 7
  BY <1>7, OneMore
<1>9. /\ IsFiniteSet(S6 \union {"SOC2-1", "SOC2-2"})
      /\ Cardinality(S6 \union {"SOC2-1", "SOC2-2"}) = 8
  BY <1>8, OneMore
<1>10. IsFiniteSet(S9) /\ Cardinality(S9) = 9
  BY <1>9, OneMore
<1>11. IsFiniteSet(S9 \union {"PCI-1"}) /\ Cardinality(S9 \union {"PCI-1"}) = 10
  BY <1>10, OneMore
<1>12. /\ IsFiniteSet(S9 \union {"PCI-1", "PCI-2"})
       /\ Cardinality(S9 \union {"PCI-1", "PCI-2"}) = 11
  BY <1>11, OneMore
<1>13. /\ IsFiniteSet(S9 \union {"PCI-1", "PCI-2", "CCPA-1"})
       /\ Cardinality(S9 \union {"PCI-1", "PCI-2", "CCPA-1"}) = 12
  BY <1>12, OneMore
<1>14. IsFiniteSet(S13) /\ Cardinality(S13) = 13
  BY <1>13, OneMore
<1> QED
  BY <1>1, <1>14

\* Three requirements, of which one depends on the tenant, are never met.
LEMMA PassedAreFew ==
  ASSUME FilesInv, MaxRecordings \in Nat, NEW t
  PROVE  /\ Cardinality(Report!Passed(t)) \in 0..10
         /\ Report!Passed(t) # Report!AllRequirements
<1> DEFINE ids == Report!Of(t)
           E == {i \in ids : Report!Escalated(recordings[i])}
           n == Cardinality(ids)
           P == Report!Passed(t)
           never == {"GDPR-1", "CCPA-1"} \union {IF n = 0 THEN "HIPAA-2" ELSE "HIPAA-3"}
<1>1. ids \subseteq DOMAIN recordings /\ E \subseteq ids
  BY DEF Report!Of
<1>2. \A i \in ids : "start" \notin Report!Range(recordings[i].timeline)
  <2> TAKE i \in ids
  <2>1. recordings[i].timeline \in Seq(AllEvents \ {"start"})
    BY <1>1 DEF FilesInv, WellKept
  <2> DEFINE q == recordings[i].timeline
  <2>2. DOMAIN q = 1..Len(q) /\ \A k \in 1..Len(q) : q[k] \in AllEvents \ {"start"}
    BY <2>1, LenProperties, ElementOfSeq
  <2> QED
    BY <2>2, ReportSame DEF Range
<1>3. Report!EscalatedIn(ids) = Cardinality(E) /\ Report!Cardinality(ids) = n
  BY ReportSame DEF Report!EscalatedIn
<1>4. n \in Nat /\ (n = 0 => ids = {}) /\ Cardinality(E) \in Nat /\ Cardinality({}) = 0
  <2> HIDE DEF ids, E
  <2>1. ids \in SUBSET DOMAIN recordings /\ E \in SUBSET DOMAIN recordings
    BY <1>1
  <2> QED
    BY <2>1, RecordingsAreFinite, FS_EmptySet
<1>5. n = 0 => Cardinality(E) = 0
  <2>1. n = 0 => E = {}
    BY <1>1, <1>4
  <2> HIDE DEF E, n
  <2> QED
    BY <1>4, <2>1
<1>6. P \subseteq Report!AllRequirements \ never
  <2> DEFINE consent == \E i \in ids : "start" \in Report!Range(recordings[i].timeline)
             withDecision == Report!Cardinality({i \in ids : Report!Decisions(recordings[i]) > 0})
             few == 100 * withDecision >= 80 * n
             some == withDecision > 0
             esc == Cardinality(E) > 0
             calm == 100 * Cardinality(E) < 20 * n
  <2>1. ~consent
    BY <1>2
  <2>2. P \subseteq {"GDPR-2", "SOC2-2", "PCI-2", "CCPA-2", "GDPR-3", "HIPAA-1", "SOC2-1",
                     "PCI-1", "SOC2-3"}
                    \union (IF esc THEN {"HIPAA-2"} ELSE {}) \union (IF n = 0 THEN {"HIPAA-3"} ELSE {})
    <3> HIDE DEF ids, E, n
    <3>1. P = {"GDPR-2", "SOC2-2", "PCI-2", "CCPA-2"}
                \union (IF consent THEN {"GDPR-1", "CCPA-1"} ELSE {})
                \union (IF n > 0 /\ few THEN {"GDPR-3"} ELSE {})
                \union (IF some THEN {"HIPAA-1", "SOC2-1", "PCI-1"} ELSE {})
                \union (IF esc THEN {"HIPAA-2"} ELSE {}) \union (IF n = 0 THEN {"HIPAA-3"} ELSE {})
                \union (IF n = 0 \/ calm THEN {"SOC2-3"} ELSE {})
      BY <1>3 DEF Report!Passed, ids
    <3> HIDE DEF consent, few, some, esc, calm, P
    <3> QED
      BY <2>1, <3>1
  <2>3. esc => n # 0
    BY <1>5
  <2> HIDE DEF P, esc, n
  <2> QED
    BY <2>2, <2>3, ThirteenRequirements
<1> DEFINE A == Report!AllRequirements
           third == IF n = 0 THEN "HIPAA-2" ELSE "HIPAA-3"
<1>7. /\ "GDPR-1" \in A /\ "CCPA-1" \in A \ {"GDPR-1"} /\ third \in (A \ {"GDPR-1"}) \ {"CCPA-1"}
      /\ A \ never = ((A \ {"GDPR-1"}) \ {"CCPA-1"}) \ {third}
  BY ThirteenRequirements
<1> HIDE DEF third, never, P
<1>8. IsFiniteSet(A) /\ Cardinality(A) = 13
  BY ThirteenRequirements
<1> HIDE DEF A
<1>9. IsFiniteSet(A \ {"GDPR-1"}) /\ Cardinality(A \ {"GDPR-1"}) = 12
  BY <1>7, <1>8, FS_RemoveElement
<1>10. /\ IsFiniteSet((A \ {"GDPR-1"}) \ {"CCPA-1"})
       /\ Cardinality((A \ {"GDPR-1"}) \ {"CCPA-1"}) = 11
  BY <1>7, <1>9, FS_RemoveElement
<1>11. IsFiniteSet(A \ never) /\ Cardinality(A \ never) = 10
  BY <1>7, <1>10, FS_RemoveElement
<1>12. P \subseteq A \ never
  BY <1>6 DEF A
<1>13. Cardinality(P) <= Cardinality(A \ never) /\ Cardinality(P) \in Nat
  BY <1>11, <1>12, FS_Subset, FS_CardinalityType
<1>14. P # A
  <2>1. "GDPR-1" \notin A \ never
    BY <1>7
  <2> QED
    BY <1>7, <1>12, <2>1
<1>15. Cardinality(P) \in 0..10
  BY <1>11, <1>13
<1> QED
  BY <1>14, <1>15 DEF P, A

LEMMA CertificateStaysOutOfReach ==
  ASSUME FilesInv, MaxRecordings \in Nat, IsFiniteSet(Customers)
  PROVE  Report!CertificateOutOfReach
<1>1. ASSUME NEW g \in DOMAIN Report!Requirements
      PROVE  Report!SumFunction(Report!Overview(g)) = Cardinality(Customers)
  <2> DEFINE status == [t \in Customers |-> Report!RegulationStatus(t, g)]
             S == Report!Statuses
             o == Report!Overview(g)
  <2>1. \A t \in Customers : status[t] \in S
    BY DEF Report!RegulationStatus, Report!StatusOf, Report!Statuses
  <2>2. IsFiniteSet(S)
    BY FourAreFinite DEF Report!Statuses
  <2>3. \A s \in S : o[s] = Cardinality(Those(Customers, status, s))
    <3> TAKE s \in S
    <3>1. o[s] = Cardinality({t \in Customers : Report!RegulationStatus(t, g) = s})
      BY ReportSame DEF Report!Overview
    <3>2. {t \in Customers : Report!RegulationStatus(t, g) = s} = Those(Customers, status, s)
      BY DEF Those
    <3> QED
      BY <3>1, <3>2
  <2>4. DOMAIN o = S
    BY DEF Report!Overview
  <2> HIDE DEF status, S, o
  <2>5. Summed(o, S) /\ SumFunctionOnSet(o, S) = Cardinality(Customers)
    BY <2>1, <2>2, <2>3, ThoseAreAll
  <2>6. Report!SumFunction(o) = Cardinality(Customers)
    BY <2>4, <2>5, ReportSame DEF SumFunction
  <2> QED
    BY <2>6 DEF o
<1>2. ASSUME NEW t \in Customers
      PROVE  ~Report!CertificateEligible(t) /\ Report!OverallStatus(t) # "compliant"
  <2> DEFINE p == Cardinality(Report!Passed(t))
  <2>1. p \in 0..10 /\ Report!Passed(t) # Report!AllRequirements
    BY PassedAreFew
  <2>2. Report!CertificateEligible(t) <=> 100 * p >= 80 * 13
    BY ReportSame, ThirteenRequirements DEF Report!CertificateEligible
  <2>3. Report!OverallStatus(t) # "compliant"
    BY <2>1 DEF Report!OverallStatus, Report!StatusOf
  <2> HIDE DEF p
  <2>4. ~(100 * p >= 80 * 13)
    BY <2>1
  <2> QED
    BY <2>2, <2>3, <2>4
<1> QED
  BY <1>1, <1>2, ReportSame DEF Report!CertificateOutOfReach

-----------------------------------------------------------------------------
(* Reports of the same recordings.                                            *)

FirstPage(S, max) == SubSeq(Report!Listed(S), 1, Report!Lesser(max, Cardinality(S)))

LEMMA PageIsOf ==
  ASSUME FilesInv, MaxRecordings \in Nat, NEW S \in SUBSET Files, NEW max \in Nat
  PROVE  /\ Range(FirstPage(S, max)) \subseteq S
         /\ IsFiniteSet(Range(FirstPage(S, max)))
         /\ Cardinality(Range(FirstPage(S, max))) = Len(FirstPage(S, max))
         /\ Cardinality(S) <= max => Range(FirstPage(S, max)) = S
<1> DEFINE sc == [i \in S |-> i]
           R == MostFirst(S, sc)
           n == Cardinality(S)
           shown == FirstPage(S, max)
           T == Range(shown)
<1>1. IsFiniteSet(S) /\ n \in Nat /\ S \subseteq Int
  BY RecordingsAreFinite DEF Files
<1>2. StrictOrder(S, R)
  <2>1. \A x \in S : sc[x] \in Int
    BY <1>1
  <2> HIDE DEF sc
  <2> QED
    BY <1>1, <2>1, MostFirstOrders
<1>3. shown = SubSeq(Ranked(S, R), 1, Report!Lesser(max, n))
  BY ReportSame DEF FirstPage, Report!Listed
<1> HIDE DEF R, n, shown
<1>4. Ranked(S, R) \in Seq(S) /\ Len(Ranked(S, R)) = n
  <2>1. IsRanking(Ranked(S, R), S, R)
    BY <1>1, <1>2, RankedIsRanking
  <2> DEFINE q == Ranked(S, R)
  <2>2. q \in [1..n -> S]
    BY <2>1 DEF IsRanking, n
  <2> HIDE DEF q
  <2>3. \A i \in 1..n : q[i] \in S
    BY <2>2
  <2>4. q \in Seq(S) /\ DOMAIN q = 1..n
    BY <1>1, <2>2, <2>3, IsASeq
  <2>5. Len(q) = n
    BY <1>1, <2>4, LenProperties
  <2> QED
    BY <2>4, <2>5 DEF q
<1>5. shown = Slice(Ranked(S, R), max)
  BY <1>1, <1>3, <1>4 DEF Slice, Report!Lesser
<1>6. /\ shown \in Seq(S)
      /\ \A i \in DOMAIN shown : shown[i] \in S
      /\ \A i, j \in DOMAIN shown : shown[i] = shown[j] => i = j
      /\ \A x \in S : (\A i \in DOMAIN shown : shown[i] # x) => Len(shown) >= max
  BY <1>1, <1>2, <1>5, SliceOfRanking
<1> DEFINE l == Len(shown)
<1>7. l \in Nat /\ DOMAIN shown = 1..l /\ IsFiniteSet(1..l) /\ Cardinality(1..l) = l
  <2>1. l \in Nat /\ DOMAIN shown = 1..l
    BY <1>6, LenProperties
  <2> HIDE DEF l
  <2>2. IsFiniteSet(1..l) /\ Cardinality(1..l) = IF 1 > l THEN 0 ELSE l - 1 + 1
    BY <2>1, FS_Interval
  <2> QED
    BY <2>1, <2>2
<1>8. T \subseteq S
  BY <1>6 DEF Range
<1>9. IsFiniteSet(T) /\ Cardinality(T) = l
  <2>1. shown \in Surjection(1..l, T) /\ shown \in Injection(1..l, T)
    <3>1. shown \in [1..l -> T]
      BY <1>6, <1>7, LenProperties DEF Range
    <3> QED
      BY <1>6, <1>7, <3>1 DEF Surjection, Injection, IsInjective, Range
  <2> HIDE DEF l, T
  <2> QED
    BY <1>7, <2>1, FS_Surjection
<1>10. ASSUME n <= max PROVE T = S
  <2>1. SUFFICES ASSUME NEW x \in S, x \notin T PROVE FALSE
    BY <1>8
  <2>2. l >= max
    BY <1>6, <2>1 DEF Range
  <2>3. T \in SUBSET (S \ {x})
    BY <1>8, <2>1
  <2> HIDE DEF l, T
  <2>4. IsFiniteSet(S \ {x}) /\ Cardinality(S \ {x}) = n - 1
    BY <1>1, <2>1, FS_RemoveElement DEF n
  <2>5. Cardinality(T) <= Cardinality(S \ {x})
    BY <2>3, <2>4, FS_Subset
  <2> QED
    BY <1>1, <1>7, <1>9, <1>10, <2>2, <2>4, <2>5
<1> QED
  BY <1>8, <1>9, <1>10 DEF n, shown

LEMMA AllInOneMetric ==
  ASSUME FilesInv, MaxRecordings \in Nat, PageSize \in Nat, NEW t
  PROVE  LET m == Report!AggregateMetrics(t, 1, MaxRecordings, 0, PageSize)
             ids == IF t = "any" THEN Files ELSE Report!Of(t)
         IN  /\ m.totalSessions = Cardinality(Files)
             /\ m.sessions = FirstPage(ids, PageSize)
             /\ m.totalDecisions = Report!DecisionsIn(ids)
<1> DEFINE ids == IF t = "any" THEN Files ELSE Report!Of(t)
           all == {i \in DOMAIN recordings : (t = "any" \/ recordings[i].tenant = t)
                                                /\ i >= 1 /\ i <= MaxRecordings}
           m == Report!AggregateMetrics(t, 1, MaxRecordings, 0, PageSize)
<1>1. \A i \in DOMAIN recordings : i >= 1 /\ i <= MaxRecordings
  BY RecordingsAreFinite
<1>2. all = ids
  BY <1>1 DEF Files, Report!Of
<1>3. 0 + 1 = 1 /\ 0 + PageSize = PageSize
  OBVIOUS
<1>4. /\ m.totalSessions = Cardinality(DOMAIN recordings)
      /\ m.sessions = SubSeq(Report!Listed(all), 0 + 1, Report!Lesser(0 + PageSize, Cardinality(all)))
      /\ m.totalDecisions = Report!DecisionsIn(all)
  BY ReportSame DEF Report!AggregateMetrics
<1> HIDE DEF all, m, ids
<1>5. /\ m.totalSessions = Cardinality(Files) /\ m.sessions = FirstPage(ids, PageSize)
      /\ m.totalDecisions = Report!DecisionsIn(ids)
  BY <1>2, <1>3, <1>4 DEF FirstPage, Files
<1> QED
  BY <1>5 DEF m, ids

TenantOf == [i \in Files |-> recordings[i].tenant]

LEMMA TenantIsThose == \A t : Report!Of(t) = Those(Files, TenantOf, t) /\ Report!Of(t) \in SUBSET Files
BY DEF Report!Of, Those, TenantOf, Files

\* Its months are the tenant.
LEMMA MonthsAddUp ==
  ASSUME FilesInv, MaxRecordings \in Nat, NEW t, NEW d \in Report!Decided
  PROVE  LET g == [m \in Report!Months |-> Report!AuditReport(t, m).policyDecisions[d]]
         IN  /\ Report!SumFunction(g) = SumFunctionOnSet(CountOf(d), Report!Of(t))
             /\ Report!SumFunction(g) \in Int
<1> DEFINE S == Report!Of(t)
           f == CountOf(d)
           K == Report!Months
           month == [i \in S |-> Report!Month(i)]
           g == [m \in Report!Months |-> Report!AuditReport(t, m).policyDecisions[d]]
<1>1. S \in SUBSET Files /\ Summed(f, S)
  BY TenantIsThose, SumsInFiles
<1>2. IsFiniteSet(K)
  BY FS_Interval DEF Report!Months, Report!Month
<1>3. \A i \in S : month[i] \in K
  <2> TAKE i \in S
  <2>1. i \in 1..MaxRecordings
    BY <1>1, RecordingsAreFinite DEF Files
  <2> QED
    BY <2>1 DEF Report!Months, Report!Month
<1>4. \A m \in K : g[m] = SumFunctionOnSet(f, Those(S, month, m))
  <2> TAKE m \in K
  <2> DEFINE ids == {i \in S : Report!Month(i) = m}
  <2>1. ids = Those(S, month, m) /\ ids \in SUBSET Files
    BY <1>1 DEF Those
  <2>2. g[m] = Report!CountIn(d, ids)
    BY DEF Report!AuditReport
  <2> HIDE DEF ids, g, f
  <2>3. Report!CountIn(d, ids) = SumFunctionOnSet(f, ids)
    BY <2>1, SumsInFiles DEF f
  <2> QED
    BY <2>1, <2>2, <2>3
<1>5. DOMAIN g = K
  OBVIOUS
<1> HIDE DEF S, f, K, month, g
<1>6. Summed(g, K) /\ SumFunctionOnSet(g, K) = SumFunctionOnSet(f, S)
  BY <1>1, <1>2, <1>3, <1>4, ThoseAddUp
<1>7. Report!SumFunction(g) = SumFunctionOnSet(f, S) /\ Report!SumFunction(g) \in Int
  BY <1>5, <1>6, ReportSame, SumOfChosen DEF SumFunction
<1> QED
  BY <1>7 DEF S, f, g

LEMMA TenantsAlwaysAgree ==
  ASSUME FilesInv, MaxRecordings \in Nat, PageSize \in Nat
  PROVE  Report!TenantsAgree
<1> DEFINE total == Report!AggregateMetrics("any", 1, MaxRecordings, 0, PageSize)
           tenants == Report!TenantComparison
           K == {recordings[i].tenant : i \in Files}
           g1 == [t \in DOMAIN tenants |-> tenants[t].sessions]
           g2 == [t \in DOMAIN tenants |-> tenants[t].decisions]
<1>1. total.totalSessions = Cardinality(Files) /\ total.totalDecisions = Report!DecisionsIn(Files)
  BY AllInOneMetric
<1>2. IsFiniteSet(Files)
  BY RecordingsAreFinite DEF Files
<1>3. IsFiniteSet(K) /\ \A i \in Files : TenantOf[i] \in K
  <2>1. K = {TenantOf[i] : i \in Files}
    BY DEF TenantOf
  <2> HIDE DEF K
  <2> QED
    BY <1>2, <2>1, KeysAreFinite
<1>4. /\ DOMAIN tenants = K
      /\ \A t \in K : /\ tenants[t].sessions = Cardinality(Report!Of(t))
                      /\ tenants[t].decisions = Report!DecisionsIn(Report!Of(t))
                      /\ tenants[t].escalations = Report!CountIn("escalate", Report!Of(t))
  BY ReportSame DEF Report!TenantComparison, Files
<1> HIDE DEF total, tenants, K
<1>5. Report!SumFunction(g1) = total.totalSessions
  <2>1. DOMAIN g1 = K /\ \A t \in K : g1[t] = Cardinality(Those(Files, TenantOf, t))
    BY <1>4, TenantIsThose
  <2> HIDE DEF g1
  <2>2. SumFunctionOnSet(g1, K) = Cardinality(Files)
    BY <1>2, <1>3, <2>1, ThoseAreAll
  <2> QED
    BY <1>1, <2>1, <2>2, ReportSame DEF SumFunction
<1>6. Report!SumFunction(g2) = total.totalDecisions
  <2>1. \A t \in K : Report!DecisionsIn(Report!Of(t))
                       = SumFunctionOnSet(DecisionsOf, Those(Files, TenantOf, t))
    BY TenantIsThose, SumsInFiles
  <2>2. DOMAIN g2 = K /\ \A t \in K : g2[t] = SumFunctionOnSet(DecisionsOf, Those(Files, TenantOf, t))
    BY <1>4, <2>1
  <2>3. Summed(DecisionsOf, Files) /\ Report!DecisionsIn(Files) = SumFunctionOnSet(DecisionsOf, Files)
    BY SumsInFiles
  <2> HIDE DEF g2
  <2>4. SumFunctionOnSet(g2, K) = SumFunctionOnSet(DecisionsOf, Files)
    BY <1>3, <2>2, <2>3, ThoseAddUp
  <2> QED
    BY <1>1, <2>2, <2>3, <2>4, ReportSame DEF SumFunction
<1>7. ASSUME NEW t \in K
      PROVE  tenants[t].decisions =
               Report!SumFunction([d \in Report!Decided |->
                 Report!SumFunction([m \in Report!Months |->
                   Report!AuditReport(t, m).policyDecisions[d]])])
  <2> DEFINE S == Report!Of(t)
             f == [d \in Report!Decided |->
                    Report!SumFunction([m \in Report!Months |->
                      Report!AuditReport(t, m).policyDecisions[d]])]
  <2>1. \A d \in Report!Decided : f[d] = SumFunctionOnSet(CountOf(d), S) /\ f[d] \in Int
    BY MonthsAddUp
  <2>2. DOMAIN f = Report!Decided
        /\ Report!Decided = {"allow", "rewrite", "refuse", "escalate"}
    BY DEF Report!Decided
  <2>3. S \in SUBSET Files
    BY TenantIsThose
  <2> HIDE DEF f, S
  <2>4. SumFunctionOnSet(f, {"allow", "rewrite", "refuse", "escalate"})
          = f["allow"] + f["rewrite"] + f["refuse"] + f["escalate"]
    <3> DEFINE D == {"allow", "rewrite", "refuse", "escalate"}
    <3>1. D = {"allow", "rewrite", "refuse", "escalate"} /\ \A d \in D : f[d] \in Int
      BY <2>1, <2>2
    <3> HIDE DEF D
    <3>2. SumFunctionOnSet(f, D) = f["allow"] + f["rewrite"] + f["refuse"] + f["escalate"]
      BY <3>1, SumOfFour
    <3> QED
      BY <3>2 DEF D
  <2>5. Report!SumFunction(f) = f["allow"] + f["rewrite"] + f["refuse"] + f["escalate"]
    BY <2>2, <2>4, ReportSame DEF SumFunction
  <2>6. Report!DecisionsIn(S) = f["allow"] + f["rewrite"] + f["refuse"] + f["escalate"]
    <3>1. /\ f["allow"] = SumFunctionOnSet(CountOf("allow"), S)
          /\ f["rewrite"] = SumFunctionOnSet(CountOf("rewrite"), S)
          /\ f["refuse"] = SumFunctionOnSet(CountOf("refuse"), S)
          /\ f["escalate"] = SumFunctionOnSet(CountOf("escalate"), S)
      BY <2>1, <2>2
    <3> QED
      BY <2>3, <3>1, SumsInFiles
  <2> QED
    BY <1>4, <2>5, <2>6 DEF f, S
<1>8. ASSUME NEW t \in K
      PROVE  LET report == Report!ComplianceReport(t, 1, MaxRecordings)
             IN /\ report.sessions \subseteq Report!Of(t)
                /\ Cardinality(Report!Of(t)) <= PageSize =>
                     report.decisions = tenants[t].decisions
                       /\ report.escalations = tenants[t].escalations
  <2> DEFINE report == Report!ComplianceReport(t, 1, MaxRecordings)
             S == Report!Of(t)
             page == Range(FirstPage(S, PageSize))
             ids == {i \in page : i >= 1 /\ i <= MaxRecordings}
  <2>1. t # "any"
    BY DEF K, FilesInv, WellKept, Files
  <2>2. S \in SUBSET Files
    BY TenantIsThose
  <2>3. page \subseteq S /\ (Cardinality(S) <= PageSize => page = S)
    BY <2>2, PageIsOf
  <2>4. Report!Range(Report!AggregateMetrics(t, 1, MaxRecordings, 0, PageSize).sessions) = page
    BY <2>1, AllInOneMetric, ReportSame
  <2>5. /\ report.sessions = ids /\ report.decisions = Report!DecisionsIn(ids)
        /\ report.escalations = Report!CountIn("escalate", ids)
    BY <2>4 DEF Report!ComplianceReport
  <2>6. ids = page
    <3>1. \A i \in page : i \in 1..MaxRecordings
      BY <2>2, <2>3, RecordingsAreFinite DEF Files
    <3> HIDE DEF page
    <3> QED
      BY <3>1
  <2> HIDE DEF report, S, page, ids
  <2> QED
    BY <1>4, <2>3, <2>5, <2>6 DEF report, S
<1> QED
  BY <1>4, <1>5, <1>6, <1>7, <1>8, ReportSame DEF Report!TenantsAgree, total, tenants

EscalatedOf(S) == {i \in S : Report!Escalated(recordings[i])}
TopicOf == [i \in Files |-> recordings[i].topic]
QuestionOf == [i \in Files |-> recordings[i].question]
PathOf == [i \in Files |-> Report!PathSteps(recordings[i])]

LEMMA TopicsAddUp ==
  ASSUME FilesInv, MaxRecordings \in Nat, NEW S \in SUBSET Files
  PROVE  LET clusters == Report!TopicClusters(S)
         IN  /\ Report!SumFunction([x \in DOMAIN clusters |-> clusters[x].sessionCount])
                  = Cardinality(S)
             /\ Report!SumFunction([x \in DOMAIN clusters |-> clusters[x].escalated])
                  = Cardinality(EscalatedOf(S))
<1> DEFINE c == Report!TopicClusters(S)
           K == {recordings[i].topic : i \in S}
           E == EscalatedOf(S)
           g1 == [x \in DOMAIN c |-> c[x].sessionCount]
           g2 == [x \in DOMAIN c |-> c[x].escalated]
<1>1. IsFiniteSet(S)
  BY RecordingsAreFinite DEF Files
<1>2. IsFiniteSet(K) /\ \A i \in S : TopicOf[i] \in K
  <2>1. K = {TopicOf[i] : i \in S}
    BY DEF TopicOf
  <2> HIDE DEF K
  <2> QED
    BY <1>1, <2>1, KeysAreFinite
<1>3. E \subseteq S /\ IsFiniteSet(E)
  <2>1. E \subseteq S
    BY DEF EscalatedOf
  <2> HIDE DEF E
  <2> QED
    BY <1>1, <2>1, FS_Subset
<1>4. DOMAIN c = K
      /\ \A x \in K :
           /\ c[x].sessionCount = Report!Cardinality({i \in S : recordings[i].topic = x})
           /\ c[x].escalated = Report!EscalatedIn({i \in S : recordings[i].topic = x})
  BY DEF Report!TopicClusters
<1>5. \A x \in K : {i \in S : recordings[i].topic = x} = Those(S, TopicOf, x)
                   /\ {i \in {j \in S : recordings[j].topic = x} : Report!Escalated(recordings[i])}
                        = Those(E, TopicOf, x)
  BY DEF Those, TopicOf, EscalatedOf
<1>6. \A x \in K : c[x].sessionCount = Cardinality(Those(S, TopicOf, x))
                   /\ c[x].escalated = Cardinality(Those(E, TopicOf, x))
  <2> TAKE x \in K
  <2> DEFINE H == {i \in S : recordings[i].topic = x}
  <2>1. Report!EscalatedIn(H) = Cardinality({i \in H : Report!Escalated(recordings[i])})
    BY ReportSame DEF Report!EscalatedIn
  <2> QED
    BY <1>4, <1>5, <2>1, ReportSame
<1>7. \A i \in E : TopicOf[i] \in K
  BY <1>2, <1>3
<1>8. /\ DOMAIN g1 = K /\ \A x \in K : g1[x] = Cardinality(Those(S, TopicOf, x))
      /\ DOMAIN g2 = K /\ \A x \in K : g2[x] = Cardinality(Those(E, TopicOf, x))
  BY <1>4, <1>6
<1> HIDE DEF c, K, E, g1, g2
<1>9. SumFunctionOnSet(g1, K) = Cardinality(S) /\ SumFunctionOnSet(g2, K) = Cardinality(E)
  BY <1>1, <1>2, <1>3, <1>7, <1>8, ThoseAreAll
<1>10. Report!SumFunction(g1) = Cardinality(S) /\ Report!SumFunction(g2) = Cardinality(E)
  BY <1>8, <1>9, ReportSame DEF SumFunction
<1> QED
  BY <1>10 DEF g1, g2, c, E

\* Where there are fewer keys than are listed, all are.
LEMMA FewAreFrequent ==
  ASSUME NEW keys, IsFiniteSet(keys), NEW max \in Nat, Cardinality(keys) < max,
         NEW often, NEW youngest
  PROVE  Report!Frequent(keys, often, youngest, max) = keys
<1> DEFINE ahead(k) == {o \in keys : \/ often[o] > often[k]
                                     \/ often[o] = often[k] /\ youngest[o] > youngest[k]}
<1>1. Report!Frequent(keys, often, youngest, max) = {k \in keys : Cardinality(ahead(k)) < max}
  BY ReportSame DEF Report!Frequent
<1>2. \A k : ahead(k) \subseteq keys
  OBVIOUS
<1> HIDE DEF ahead
<1>3. \A k : Cardinality(ahead(k)) \in Nat /\ Cardinality(ahead(k)) <= Cardinality(keys)
  BY <1>2, FS_Subset, FS_CardinalityType
<1> QED
  BY <1>1, <1>3, FS_CardinalityType

\* There are no more keys than things they are keys of.
LEMMA KeysAreFew ==
  ASSUME NEW S, IsFiniteSet(S), NEW key, NEW K, K = {key[x] : x \in S}
  PROVE  Cardinality(K) <= Cardinality(S)
<1> DEFINE f == [x \in S |-> key[x]]
<1>1. f \in Surjection(S, K)
  BY DEF Surjection
<1> HIDE DEF f
<1> QED
  BY <1>1, FS_Surjection

LEMMA QuestionsAddUp ==
  ASSUME FilesInv, MaxRecordings \in Nat, NEW S \in SUBSET Files, Cardinality(S) < 10
  PROVE  Report!SumFunction(Report!Faqs(S)) = Report!CountIn("user", S)
<1> DEFINE K == {recordings[i].question : i \in S}
           Q == {q \in K : Report!Asked(q, S) >= 1}
           f == Report!Faqs(S)
           g == [q \in K |-> Report!Asked(q, S)]
           h == CountOf("user")
<1>1. IsFiniteSet(S) /\ Summed(h, S) /\ Report!CountIn("user", S) = SumFunctionOnSet(h, S)
  BY RecordingsAreFinite, SumsInFiles DEF Files
<1>2. IsFiniteSet(K) /\ \A i \in S : QuestionOf[i] \in K
  <2>1. K = {QuestionOf[i] : i \in S}
    BY DEF QuestionOf
  <2> HIDE DEF K
  <2> QED
    BY <1>1, <2>1, KeysAreFinite
<1>3. \A i \in Files : h[i] \in Int /\ h[i] >= 0
  BY CountsAreNumbers DEF CountOf, FilesInv, Files
<1>4. ASSUME NEW q \in K
      PROVE  /\ g[q] = SumFunctionOnSet(h, Those(S, QuestionOf, q))
             /\ g[q] \in Int /\ g[q] >= 0
  <2> DEFINE H == {i \in S : recordings[i].question = q}
  <2>1. H = Those(S, QuestionOf, q) /\ H \in SUBSET Files /\ H \subseteq S
    BY DEF Those, QuestionOf
  <2>2. g[q] = Report!CountIn("user", H)
    BY DEF Report!Asked, Report!Asking
  <2> HIDE DEF H, g, h
  <2>3. Report!CountIn("user", H) = SumFunctionOnSet(h, H) /\ Summed(h, H)
    BY <2>1, SumsInFiles DEF h
  <2>4. \A i \in H : h[i] >= 0
    BY <1>3, <2>1
  <2>5. {} \subseteq H /\ IsFiniteSet({})
    BY FS_EmptySet
  <2>6. Summed(h, {})
    BY <2>5 DEF Summed
  <2>7. SumFunctionOnSet(h, {}) = 0
    BY <2>6, SumOfChosen
  <2>8. SumFunctionOnSet(h, {}) <= SumFunctionOnSet(h, H) /\ SumFunctionOnSet(h, H) \in Int
    BY <2>3, <2>4, <2>5, SumGrows
  <2> QED
    BY <2>1, <2>2, <2>3, <2>7, <2>8
<1>5. \A q \in K : g[q] = SumFunctionOnSet(h, Those(S, QuestionOf, q))
  BY <1>4
<1> DEFINE met == [q \in Q |-> Report!Youngest({i \in Report!Asking(q, S) :
                                                 Report!Count(recordings[i], "user") > 0})]
<1>6. DOMAIN f = Q /\ \A q \in Q : f[q] = g[q]
  <2>1. f = [q \in Report!Frequent(Q, g, met, 20) |-> g[q]]
    BY ReportSame DEF Report!Faqs
  <2>2. IsFiniteSet(Q) /\ Cardinality(Q) < 20
    <3>1. K = {QuestionOf[i] : i \in S} /\ Q \subseteq K
      BY DEF QuestionOf
    <3> HIDE DEF K, Q
    <3>2. Cardinality(K) <= Cardinality(S)
      BY <1>1, <3>1, KeysAreFew
    <3>3. IsFiniteSet(Q) /\ Cardinality(Q) <= Cardinality(K)
      BY <1>2, <3>1, FS_Subset
    <3>4. Cardinality(Q) \in Nat /\ Cardinality(K) \in Nat /\ Cardinality(S) \in Nat
      BY <1>1, <1>2, <3>3, FS_CardinalityType
    <3> QED
      BY <3>2, <3>3, <3>4
  <2> HIDE DEF Q, g, met, f
  <2>3. Report!Frequent(Q, g, met, 20) = Q
    BY <2>2, FewAreFrequent
  <2> QED
    BY <2>1, <2>3
<1>7. Q \subseteq K /\ \A q \in K \ Q : ~(g[q] >= 1)
  OBVIOUS
<1> HIDE DEF K, Q, f, g, h
<1>8. Summed(g, K) /\ SumFunctionOnSet(g, K) = SumFunctionOnSet(h, S)
  BY <1>1, <1>2, <1>5, ThoseAddUp
<1> DEFINE R == K \ Q
<1>9. Q \union R = K /\ Q \intersect R = {}
  BY <1>7
<1>10. Summed(g, R) /\ IsFiniteSet(R) /\ Cardinality(R) \in Nat
  <2>1. R \subseteq K
    OBVIOUS
  <2> HIDE DEF R
  <2>2. IsFiniteSet(R)
    BY <1>2, <2>1, FS_Subset
  <2> QED
    BY <1>8, <2>1, <2>2, FS_CardinalityType DEF Summed
<1>11. \A q \in R : 0 <= g[q] /\ g[q] <= 0
  BY <1>4, <1>7
<1> HIDE DEF R
<1>12. SumFunctionOnSet(g, R) = 0
  <2>1. /\ Cardinality(R) * 0 <= SumFunctionOnSet(g, R)
        /\ SumFunctionOnSet(g, R) <= Cardinality(R) * 0
    BY <1>10, <1>11, SumIsBounded
  <2>2. SumFunctionOnSet(g, R) \in Int
    BY <1>10, SumOfChosen
  <2> QED
    BY <1>10, <2>1, <2>2
<1>13. SumFunctionOnSet(g, K) = SumFunctionOnSet(g, Q) + SumFunctionOnSet(g, R)
  <2>1. Summed(g, Q \union R)
    BY <1>8, <1>9
  <2> QED
    BY <1>9, <2>1, SumSplits
<1>14. Report!SumFunction(f) = SumFunctionOnSet(g, Q) /\ SumFunctionOnSet(g, Q) \in Int
  BY <1>6, <1>7, <1>8, SumIn
<1> QED
  BY <1>1, <1>8, <1>12, <1>13, <1>14 DEF f

LEMMA SliceIsOf ==
  ASSUME NEW V, NEW seq \in Seq(V), NEW max \in Nat
  PROVE  Range(Slice(seq, max)) \subseteq Range(seq)
<1> DEFINE n == Len(seq)
           m == IF max > n THEN n ELSE max
<1>1. n \in Nat /\ DOMAIN seq = 1..n
  BY LenProperties
<1>2. Slice(seq, max) = SubSeq(seq, 1, m)
  BY DEF Slice
<1>3. m \in 0..n
  BY <1>1
<1> HIDE DEF m, n
<1>4. SubSeq(seq, 1, m) = [i \in 1..m |-> seq[i]]
  <2>1. SubSeq(seq, 1, m) = [i \in 1..(m - 1 + 1) |-> seq[i + 1 - 1]]
    BY <1>1, <1>3 DEF n
  <2>2. m - 1 + 1 = m /\ \A i \in 1..m : i + 1 - 1 = i
    BY <1>1, <1>3
  <2> QED
    BY <2>1, <2>2
<1> QED
  BY <1>1, <1>2, <1>3, <1>4 DEF Range

\* What a path shows is in the recording.
LEMMA PathIsOf ==
  ASSUME NEW r, WellKept(r), MaxSteps \in Nat
  PROVE  Report!ClassifyOutcome(Report!PathSteps(r)) = "escalated" => Report!Escalated(r)
<1> DEFINE V == AllEvents \ {"start"}
           I == {i \in DOMAIN r.timeline : r.timeline[i] # "start"}
           got == Picked(r.timeline, I)
<1>1. r.timeline \in Seq(V) /\ I \subseteq DOMAIN r.timeline
  BY DEF WellKept
<1>2. Report!PathSteps(r) = Slice(got, MaxSteps)
  BY ReportSame DEF Report!PathSteps
<1> HIDE DEF V, I
<1>3. got \in Seq(V) /\ Range(got) \subseteq Range(r.timeline)
  BY <1>1, PickedAreThere, PickedAreOf
<1> HIDE DEF got
<1>4. Range(Slice(got, MaxSteps)) \subseteq Range(got)
  BY <1>3, SliceIsOf
<1>5. Report!ClassifyOutcome(Report!PathSteps(r)) = "escalated"
        => "escalate" \in Report!Range(Report!PathSteps(r))
  BY DEF Report!ClassifyOutcome
<1> QED
  BY <1>2, <1>3, <1>4, <1>5, ReportSame, CountsAreNumbers DEF Report!Escalated

LEMMA PathsAddUp ==
  ASSUME FilesInv, MaxRecordings \in Nat, MaxSteps \in Nat, NEW S \in SUBSET Files
  PROVE  Report!EscalatedPaths(S) <= Cardinality(EscalatedOf(S))
<1> DEFINE K == {Report!PathSteps(recordings[i]) : i \in S}
           often == [x \in K |-> Cardinality(Those(S, PathOf, x))]
           paths == Report!ResolutionPaths(S)
           E == {i \in S : Report!ClassifyOutcome(PathOf[i]) = "escalated"}
           h == [x \in K |-> IF Report!ClassifyOutcome(x) = "escalated" THEN often[x] ELSE 0]
           g == [x \in DOMAIN paths |->
                   IF Report!ClassifyOutcome(x) = "escalated" THEN paths[x] ELSE 0]
<1>1. IsFiniteSet(S)
  BY RecordingsAreFinite DEF Files
<1>2. IsFiniteSet(K) /\ \A i \in S : PathOf[i] \in K
  <2>1. K = {PathOf[i] : i \in S}
    BY DEF PathOf
  <2> HIDE DEF K
  <2> QED
    BY <1>1, <2>1, KeysAreFinite
<1>3. DOMAIN paths \subseteq K /\ \A x \in DOMAIN paths : paths[x] = often[x]
  <2> DEFINE youngest == [x \in K |-> Report!Youngest(Report!Taking(x, S))]
  <2>1. \A x : Report!Taking(x, S) = Those(S, PathOf, x)
    BY DEF Those, PathOf, Report!Taking
  <2>2. often = [x \in K |-> Report!Cardinality(Report!Taking(x, S))]
    BY <2>1, ReportSame
  <2>3. paths = [x \in Report!Frequent(K, often, youngest, 10) |-> often[x]]
    BY <2>2 DEF Report!ResolutionPaths
  <2>4. Report!Frequent(K, often, youngest, 10) \subseteq K
    BY DEF Report!Frequent
  <2> HIDE DEF K, often, youngest, paths
  <2> QED
    BY <2>3, <2>4
<1>4. Report!EscalatedPaths(S) = Report!SumFunction(g)
  BY DEF Report!EscalatedPaths
<1>5. E \subseteq S /\ IsFiniteSet(E) /\ E \subseteq EscalatedOf(S)
  <2>1. E \subseteq S
    OBVIOUS
  <2>2. E \subseteq EscalatedOf(S)
    BY PathIsOf DEF PathOf, EscalatedOf, FilesInv, Files
  <2> HIDE DEF E
  <2> QED
    BY <1>1, <2>1, <2>2, FS_Subset
<1>6. DOMAIN h = K /\ \A x \in K : h[x] = Cardinality(Those(E, PathOf, x))
  <2>1. ASSUME NEW x \in K PROVE h[x] = Cardinality(Those(E, PathOf, x))
    <3>1. CASE Report!ClassifyOutcome(x) = "escalated"
      <4>1. Those(E, PathOf, x) = Those(S, PathOf, x)
        BY <3>1 DEF Those
      <4> QED
        BY <3>1, <4>1
    <3>2. CASE Report!ClassifyOutcome(x) # "escalated"
      <4>1. Those(E, PathOf, x) = {}
        BY <3>2 DEF Those
      <4> QED
        BY <3>2, <4>1, FS_EmptySet
    <3> QED
      BY <3>1, <3>2
  <2> QED
    BY <2>1
<1>7. \A i \in E : PathOf[i] \in K
  BY <1>2, <1>5
<1> HIDE DEF K, E
<1>8. Summed(h, K) /\ SumFunctionOnSet(h, K) = Cardinality(E)
  <2> HIDE DEF h
  <2> QED
    BY <1>2, <1>5, <1>6, <1>7, ThoseAreAll
<1>9. Report!EscalatedPaths(S) <= Cardinality(E)
  <2>1. \A x \in DOMAIN paths : g[x] = h[x]
    BY <1>3
  <2>2. \A x \in K : h[x] >= 0
    <3>1. \A x \in K : Those(E, PathOf, x) \subseteq E
      BY DEF Those
    <3>2. \A x \in K : Cardinality(Those(E, PathOf, x)) \in Nat
      BY <1>5, <3>1, FS_Subset, FS_CardinalityType
    <3> HIDE DEF h
    <3> QED
      BY <1>6, <3>2
  <2>3. DOMAIN g = DOMAIN paths
    OBVIOUS
  <2> HIDE DEF g, h, paths
  <2>4. Report!SumFunction(g) = SumFunctionOnSet(h, DOMAIN paths)
    BY <1>3, <1>8, <2>1, <2>3, SumIn
  <2>5. SumFunctionOnSet(h, DOMAIN paths) <= SumFunctionOnSet(h, K)
    BY <1>3, <1>8, <2>2, SumGrows
  <2> QED
    BY <1>4, <1>8, <2>4, <2>5
<1>10. IsFiniteSet(EscalatedOf(S))
  <2>1. EscalatedOf(S) \subseteq S
    BY DEF EscalatedOf
  <2> QED
    BY <1>1, <2>1, FS_Subset
<1>11. Cardinality(E) <= Cardinality(EscalatedOf(S))
  BY <1>5, <1>10, FS_Subset
<1>12. Cardinality(E) \in Nat /\ Cardinality(EscalatedOf(S)) \in Nat
        /\ Report!EscalatedPaths(S) \in Int
  <2>1. Report!SumFunction(g) \in Int
    <3>1. \A x \in DOMAIN paths : g[x] = h[x]
      BY <1>3
    <3>2. DOMAIN g = DOMAIN paths
      OBVIOUS
    <3> HIDE DEF g, h, paths
    <3> QED
      BY <1>3, <1>8, <3>1, <3>2, SumIn
  <2> QED
    BY <1>4, <1>5, <1>10, <2>1, FS_CardinalityType
<1> HIDE DEF h, g, paths
<1> QED
  BY <1>9, <1>11, <1>12

LEMMA SessionsAlwaysAgree ==
  ASSUME FilesInv, MaxRecordings \in Nat, PageSize \in Nat, MaxSteps \in Nat
  PROVE  Report!SessionsAgree
<1> DEFINE all == Report!Loaded(PageSize)
           page == FirstPage(Files, PageSize)
           total == Report!AggregateMetrics("any", 1, MaxRecordings, 0, PageSize)
           clusters == Report!TopicClusters(all)
<1>1. all = Range(page)
  BY ReportSame DEF Report!Loaded, FirstPage, Files
<1>2. total.sessions = page
  BY AllInOneMetric
<1> HIDE DEF all, page, total
<1>3. Range(page) \in SUBSET Files /\ Cardinality(Range(page)) = Len(page)
  BY PageIsOf DEF page
<1>4. all \in SUBSET Files /\ Cardinality(all) = Len(total.sessions)
  BY <1>1, <1>2, <1>3
<1>5. /\ Report!SumFunction([x \in DOMAIN clusters |-> clusters[x].sessionCount]) = Cardinality(all)
      /\ Report!SumFunction([x \in DOMAIN clusters |-> clusters[x].escalated])
           = Cardinality(EscalatedOf(all))
  BY <1>4, TopicsAddUp
<1>6. Cardinality(all) < 10 => Report!SumFunction(Report!Faqs(all)) = Report!CountIn("user", all)
  BY <1>4, QuestionsAddUp
<1>7. Report!EscalatedPaths(all) <= Cardinality(EscalatedOf(all))
  BY <1>4, PathsAddUp
<1> HIDE DEF clusters
<1>8. Report!Cardinality(all) = Cardinality(all)
  BY ReportSame
<1> QED
  BY <1>4, <1>5, <1>6, <1>7, <1>8 DEF Report!SessionsAgree, all, total, clusters

-----------------------------------------------------------------------------
(* The comparison of two agents.                                              *)

LEMMA ScoresAreNumbers ==
  ASSUME NEW r, WellKept(r)
  PROVE  Report!Score(r) \in Int
<1>1. /\ \A d : Report!Count(r, d) \in Nat
      /\ Report!Complying(r) \in Nat /\ Report!Decisions(r) \in Nat /\ Report!Turns(r) \in Nat
  BY CountsAreNumbers
<1>2. Report!PolicyCompliance(r) \in Int
  <2> DEFINE c == Report!Complying(r)
             d == Report!Decisions(r)
  <2>1. c \in Nat /\ d \in Nat
    BY <1>1
  <2>2. Report!PolicyCompliance(r) = IF d = 0 THEN 20 ELSE (2 * (20 * c) + d) \div (2 * d)
    BY DEF Report!PolicyCompliance, Report!Rounded
  <2> HIDE DEF c, d
  <2>3. d # 0 => (2 * (20 * c) + d) \div (2 * d) \in Int
    BY <2>1
  <2> QED
    BY <2>2, <2>3
<1>3. Report!SentimentTrajectory(r) \in Int
  BY DEF Report!SentimentTrajectory
<1>4. Report!ResolutionRate(r) \in Int
  <2> DEFINE n == Report!Count(r, "escalate")
  <2>1. n \in Nat
    BY <1>1
  <2>2. Report!ResolutionRate(r) = <<20, 12, 6, 0>>[1 + IF n < 3 THEN n ELSE 3]
    BY DEF Report!ResolutionRate, Report!Lesser
  <2> HIDE DEF n
  <2>3. (1 + IF n < 3 THEN n ELSE 3) \in {1, 2, 3, 4}
    BY <2>1
  <2> QED
    BY <2>2, <2>3
<1>5. Report!ResponseRelevance(r) \in Int
  <2> DEFINE n == Report!Turns(r)
  <2>1. n \in Nat
    BY <1>1
  <2>2. Report!ResponseRelevance(r) = <<0, 5, 10, 15, 15, 20>>[1 + IF n < 5 THEN n ELSE 5]
    BY DEF Report!ResponseRelevance, Report!Lesser
  <2> HIDE DEF n
  <2>3. (1 + IF n < 5 THEN n ELSE 5) \in {1, 2, 3, 4, 5, 6}
    BY <2>1
  <2> QED
    BY <2>2, <2>3
<1>6. Report!LatencyAdherence(r) \in Int
  <2> DEFINE L == {x \in {4, 6, 8, 12} : r.duration >= x * Report!Greater(Report!Turns(r), 1)}
  <2>1. IsFiniteSet({4, 6, 8, 12}) /\ L \subseteq {4, 6, 8, 12}
    BY FourAreFinite
  <2>2. Report!LatencyAdherence(r) = 20 - 4 * Cardinality(L)
    BY ReportSame DEF Report!LatencyAdherence
  <2> HIDE DEF L
  <2>3. Cardinality(L) \in Nat
    BY <2>1, FS_Subset, FS_CardinalityType
  <2> QED
    BY <2>2, <2>3
<1> QED
  BY <1>2, <1>3, <1>4, <1>5, <1>6 DEF Report!Score

LEMMA ScoresAddUp ==
  ASSUME FilesInv, MaxRecordings \in Nat, NEW S \in SUBSET Files
  PROVE  Report!ScoreIn(S) \in Int
<1> DEFINE f == [i \in S |-> Report!Score(recordings[i])]
<1>1. \A i \in S : f[i] \in Int
  BY ScoresAreNumbers DEF FilesInv, Files
<1>2. IsFiniteSet(S) /\ DOMAIN f = S
  BY RecordingsAreFinite DEF Files
<1>3. Report!ScoreIn(S) = Report!SumFunction(f)
  BY DEF Report!ScoreIn
<1> HIDE DEF f
<1>4. Summed(f, DOMAIN f)
  BY <1>1, <1>2 DEF Summed
<1> QED
  BY <1>3, <1>4, SumOfAll, ReportSame

LEMMA PercentilesAreDurations ==
  ASSUME FilesInv, MaxRecordings \in Nat, NEW S \in SUBSET Files
  PROVE  Report!Percentile(S, 50) \in Int
<1> DEFINE sc == [i \in S |-> -recordings[i].duration]
           R == MostFirst(S, sc)
           q == Ranked(S, R)
           n == Cardinality(S)
           place == Report!Greater(1, (50 * n + 99) \div 100)
<1>1. IsFiniteSet(S) /\ n \in Nat /\ S \subseteq Int /\ (n = 0 <=> S = {})
  BY RecordingsAreFinite DEF Files
<1>2. \A i \in S : recordings[i].duration \in Int
  BY DEF FilesInv, WellKept, Files
<1>3. \A i \in S : sc[i] \in Int
  BY <1>2
<1>4. Report!Percentile(S, 50) = IF S = {} THEN 0 ELSE recordings[q[place]].duration
  BY ReportSame DEF Report!Percentile
<1> HIDE DEF sc
<1>5. StrictOrder(S, R)
  BY <1>1, <1>3, MostFirstOrders
<1> HIDE DEF R
<1>6. IsRanking(q, S, R)
  BY <1>1, <1>5, RankedIsRanking
<1>7. q \in [1..n -> S]
  BY <1>6 DEF IsRanking
<1> HIDE DEF q, n
<1>8. ASSUME S # {} PROVE place \in 1..n
  <2> DEFINE x == (50 * n + 99) \div 100
  <2>1. n \in Nat /\ n >= 1
    <3>1. n # 0
      BY <1>1, <1>8, Zenon
    <3> QED
      BY <1>1, <3>1
  <2>2. x \in Int /\ x <= n
    BY <2>1
  <2>3. place = IF 1 > x THEN 1 ELSE x
    BY DEF Report!Greater
  <2> HIDE DEF x, place
  <2> QED
    BY <2>1, <2>2, <2>3
<1> HIDE DEF place
<1>9. S # {} => q[place] \in S
  BY <1>7, <1>8
<1> QED
  BY <1>2, <1>4, <1>9

LEMMA SentimentIsKnown ==
  ASSUME FilesInv, MaxRecordings \in Nat, NEW S \in SUBSET Files
  PROVE  Report!SentimentRank[Report!TopSentiment(S)] \in Int
<1> DEFINE met == {m \in Report!Moods : Report!Feeling(m, S) # {}}
           f == [m \in met |-> Cardinality(Report!Feeling(m, S))]
<1>1. \A m : /\ Report!Feeling(m, S) = {i \in S : recordings[i].mood = m}
             /\ Cardinality(Report!Feeling(m, S)) \in Nat
  <2>1. \A m : Report!Feeling(m, S) = {i \in S : recordings[i].mood = m}
    BY DEF Report!Feeling
  <2>2. \A m : Report!Feeling(m, S) \in SUBSET DOMAIN recordings
    BY <2>1 DEF Files
  <2> QED
    BY <2>1, <2>2, RecordingsAreFinite
<1>2. \A m \in met : \A o \in met \ {m} :
        Report!Precedes(m, o, S) <=>
          \/ f[m] > f[o]
          \/ f[m] = f[o] /\ \E i \in Report!Feeling(m, S) : \A j \in Report!Feeling(o, S) : i < j
  BY ReportSame DEF Report!Precedes
<1>3. Summed(f, met)
  <2>1. IsFiniteSet(Report!Moods) /\ met \subseteq Report!Moods
    BY FourAreFinite DEF Report!Moods
  <2>2. \A m \in met : f[m] \in Int
    BY <1>1
  <2> HIDE DEF met, f
  <2>3. IsFiniteSet(met)
    BY <2>1, FS_Subset
  <2> QED
    BY <2>2, <2>3 DEF Summed
<1>4. Report!TopSentiment(S) = IF met = {} THEN "unknown"
                               ELSE CHOOSE m \in met : \A o \in met \ {m} : Report!Precedes(m, o, S)
  BY DEF Report!TopSentiment
<1>5. \A m \in met : m \in Report!Moods /\ Report!Feeling(m, S) # {} /\ f[m] \in Int
  BY <1>1
<1> HIDE DEF met, f
<1>6. ASSUME met # {} PROVE \E m \in met : \A o \in met \ {m} : Report!Precedes(m, o, S)
  <2>1. PICK s \in met : \A t \in met : f[t] <= f[s]
    BY <1>3, <1>6, SomeHasMost
  <2> DEFINE T == {i \in S : \E m \in met : f[m] = f[s] /\ i \in Report!Feeling(m, S)}
  <2>2. T \subseteq Nat
    BY RecordingsAreFinite DEF Files
  <2>3. T # {}
    BY <1>1, <1>5
  <2> HIDE DEF T
  <2>4. PICK n \in T : \A j \in T : n <= j
    BY <2>2, <2>3, LeastNumber
  <2>5. PICK m \in met : f[m] = f[s] /\ n \in Report!Feeling(m, S)
    BY <2>4 DEF T
  <2>6. ASSUME NEW o \in met \ {m} PROVE Report!Precedes(m, o, S)
    <3>1. CASE f[o] = f[s]
      <4>1. ASSUME NEW j \in Report!Feeling(o, S) PROVE n < j
        <5>1. j \in T
          BY <1>1, <3>1, <4>1 DEF T
        <5>2. j # n
          BY <1>1, <2>5, <2>6, <4>1
        <5> QED
          BY <2>2, <2>4, <5>1, <5>2
      <4> QED
        BY <1>2, <2>5, <3>1, <4>1
    <3>2. CASE f[o] # f[s]
      <4>1. f[o] < f[m]
        BY <1>5, <2>1, <2>5, <3>2
      <4> QED
        BY <1>2, <1>5, <2>5, <4>1
    <3> QED
      BY <3>1, <3>2
  <2> QED
    BY <2>5, <2>6
<1>7. Report!TopSentiment(S) \in Report!Moods \union {"unknown"}
  BY <1>4, <1>5, <1>6
<1> QED
  BY <1>7 DEF Report!SentimentRank, Report!Moods

\* Who wins is told of both sides alike.
LEMMA WonSwaps ==
  ASSUME NEW a \in Int, NEW b \in Int
  PROVE  /\ Report!Won(b, a) = "A" <=> Report!Won(a, b) = "B"
         /\ Report!Won(b, a) = "B" <=> Report!Won(a, b) = "A"
BY DEF Report!Won

\* Three metrics of four go to one side only.
LEMMA OneSideWins ==
  ASSUME NEW A, NEW B, A \subseteq 1..4, B \subseteq 1..4, A \intersect B = {}
  PROVE  /\ Cardinality(A) \in Nat /\ Cardinality(B) \in Nat
         /\ Cardinality(A) + Cardinality(B) <= 4
<1>1. IsFiniteSet(1..4) /\ Cardinality(1..4) = 4
  <2>1. 1 \in Int /\ 4 \in Int
    OBVIOUS
  <2>2. IsFiniteSet(1..4) /\ Cardinality(1..4) = IF 1 > 4 THEN 0 ELSE 4 - 1 + 1
    BY <2>1, FS_Interval, Zenon
  <2> QED
    BY <2>2
<1>2. IsFiniteSet(A) /\ IsFiniteSet(B)
  BY <1>1, FS_Subset
<1>3. Cardinality(A) \in Nat /\ Cardinality(B) \in Nat
  BY <1>2, FS_CardinalityType
<1>4. Cardinality(A \intersect B) = 0
  BY FS_EmptySet
<1>5. Cardinality(A \union B) = Cardinality(A) + Cardinality(B) - Cardinality(A \intersect B)
  BY <1>2, FS_Union
<1>6. A \union B \subseteq 1..4
  OBVIOUS
<1>7. Cardinality(A \union B) <= 4
  BY <1>1, <1>6, FS_Subset
<1> QED
  BY <1>3, <1>4, <1>5, <1>7

LEMMA ComparisonAlwaysIsFair ==
  ASSUME FilesInv, MaxRecordings \in Nat
  PROVE  Report!ComparisonIsFair
<1> SUFFICES ASSUME NEW S \in SUBSET Files, NEW T \in SUBSET Files
             PROVE  Report!Recommendation(T, S) =
                      [A |-> "B", B |-> "A", tie |-> "tie",
                       insufficient_data |-> "insufficient_data"][Report!Recommendation(S, T)]
  BY DEF Report!ComparisonIsFair, Files
<1> DEFINE w == Report!MetricWinners(S, T)
           v == Report!MetricWinners(T, S)
           n == Cardinality(S)
           m == Cardinality(T)
           s1 == Report!ScoreIn(S) * m
           t1 == Report!ScoreIn(T) * n
           s2 == Report!Percentile(S, 50)
           t2 == Report!Percentile(T, 50)
           s3 == Report!EscalatedIn(S) * m
           t3 == Report!EscalatedIn(T) * n
           s4 == Report!SentimentRank[Report!TopSentiment(S)]
           t4 == Report!SentimentRank[Report!TopSentiment(T)]
<1>1. n \in Nat /\ m \in Nat
  BY RecordingsAreFinite DEF Files
<1>2. s1 \in Int /\ t1 \in Int
  <2>1. Report!ScoreIn(S) \in Int /\ Report!ScoreIn(T) \in Int
    BY ScoresAddUp
  <2> QED
    BY <1>1, <2>1
<1>3. s2 \in Int /\ t2 \in Int
  BY PercentilesAreDurations
<1>4. \A U \in SUBSET Files : Report!EscalatedIn(U) \in Nat
  <2> TAKE U \in SUBSET Files
  <2> DEFINE E == {i \in U : Report!Escalated(recordings[i])}
  <2>1. E \in SUBSET DOMAIN recordings
    BY DEF Files
  <2>2. Report!EscalatedIn(U) = Cardinality(E)
    BY ReportSame DEF Report!EscalatedIn
  <2> HIDE DEF E
  <2> QED
    BY <2>1, <2>2, RecordingsAreFinite
<1>5. s3 \in Int /\ t3 \in Int
  BY <1>1, <1>4
<1>6. s4 \in Int /\ t4 \in Int
  BY SentimentIsKnown
<1>7. w = <<Report!Won(s1, t1), Report!Won(t2, s2), Report!Won(t3, s3), Report!Won(s4, t4)>>
  <2>1. Report!EscalatedIn(T) * n = t3 /\ Report!EscalatedIn(S) * m = s3
    OBVIOUS
  <2> QED
    BY <2>1, ReportSame DEF Report!MetricWinners
<1>8. v = <<Report!Won(t1, s1), Report!Won(s2, t2), Report!Won(s3, t3), Report!Won(t4, s4)>>
  BY ReportSame DEF Report!MetricWinners
<1>9. Report!Recommendation(S, T) =
        IF n < 2 \/ m < 2 THEN "insufficient_data"
        ELSE IF Cardinality({k \in 1..4 : w[k] = "A"}) >= 3 THEN "A"
        ELSE IF Cardinality({k \in 1..4 : w[k] = "B"}) >= 3 THEN "B" ELSE "tie"
  BY ReportSame DEF Report!Recommendation
<1>10. Report!Recommendation(T, S) =
        IF m < 2 \/ n < 2 THEN "insufficient_data"
        ELSE IF Cardinality({k \in 1..4 : v[k] = "A"}) >= 3 THEN "A"
        ELSE IF Cardinality({k \in 1..4 : v[k] = "B"}) >= 3 THEN "B" ELSE "tie"
  BY ReportSame DEF Report!Recommendation
<1> HIDE DEF w, v, n, m, s1, s2, s3, s4, t1, t2, t3, t4
<1>11. \A k \in 1..4 : (v[k] = "A" <=> w[k] = "B") /\ (v[k] = "B" <=> w[k] = "A")
  <2>1. /\ (v[1] = "A" <=> w[1] = "B") /\ (v[1] = "B" <=> w[1] = "A")
        /\ (v[2] = "A" <=> w[2] = "B") /\ (v[2] = "B" <=> w[2] = "A")
        /\ (v[3] = "A" <=> w[3] = "B") /\ (v[3] = "B" <=> w[3] = "A")
        /\ (v[4] = "A" <=> w[4] = "B") /\ (v[4] = "B" <=> w[4] = "A")
    BY <1>2, <1>3, <1>5, <1>6, <1>7, <1>8, WonSwaps
  <2>2. \A k \in 1..4 : k = 1 \/ k = 2 \/ k = 3 \/ k = 4
    OBVIOUS
  <2> QED
    BY <2>1, <2>2
<1> DEFINE A == {k \in 1..4 : w[k] = "A"}
           B == {k \in 1..4 : w[k] = "B"}
<1>12. A \subseteq 1..4 /\ B \subseteq 1..4 /\ A \intersect B = {}
  OBVIOUS
<1>13. {k \in 1..4 : v[k] = "A"} = B /\ {k \in 1..4 : v[k] = "B"} = A
  BY <1>11
<1> HIDE DEF A, B
<1>14. /\ Cardinality(A) \in Nat /\ Cardinality(B) \in Nat
       /\ Cardinality(A) + Cardinality(B) <= 4
  BY <1>12, OneSideWins
<1> DEFINE a == Cardinality(A)
           b == Cardinality(B)
<1>15. /\ Report!Recommendation(S, T) =
            IF n < 2 \/ m < 2 THEN "insufficient_data"
            ELSE IF a >= 3 THEN "A" ELSE IF b >= 3 THEN "B" ELSE "tie"
       /\ Report!Recommendation(T, S) =
            IF m < 2 \/ n < 2 THEN "insufficient_data"
            ELSE IF b >= 3 THEN "A" ELSE IF a >= 3 THEN "B" ELSE "tie"
  BY <1>9, <1>10, <1>13 DEF A, B
<1>16. a \in Nat /\ b \in Nat /\ a + b <= 4
  BY <1>14
<1> HIDE DEF a, b
<1>17. CASE n < 2 \/ m < 2
  BY <1>15, <1>17
<1>18. CASE ~(n < 2) /\ ~(m < 2) /\ a >= 3
  <2>1. ~(b >= 3)
    BY <1>16, <1>18
  <2> QED
    BY <1>15, <1>18, <2>1
<1>19. CASE ~(n < 2) /\ ~(m < 2) /\ ~(a >= 3)
  BY <1>15, <1>19
<1> QED
  BY <1>17, <1>18, <1>19

-----------------------------------------------------------------------------
(* All of the reports.                                                        *)

ReportInv == FilesInv /\ AuditsInv /\ LatencyInv /\ PlanInv

LEMMA ReportBegins ==
  ASSUME Report!Init, MaxRecordings \in Nat
  PROVE  ReportInv
<1>1. FilesInv
  BY DEF Report!Init, FilesInv
<1>2. AuditsInv
  BY DEF Report!Init, AuditsInv
<1>3. LatencyInv
  <2>1. clock = 0 /\ heardAt = 0 /\ heard = <<>> /\ samples = <<>>
    BY DEF Report!Init
  <2>2. <<>> \in Seq(Sample) /\ Len(<<>>) = 0
    OBVIOUS
  <2>3. CountedFrom(0)
    BY <2>1, <2>2 DEF CountedFrom
  <2> QED
    BY <2>1, <2>2, <2>3 DEF LatencyInv
<1>4. PlanInv
  BY DEF Report!Init, PlanInv, Report!PlanCarriesLoad
<1> QED
  BY <1>1, <1>2, <1>3, <1>4 DEF ReportInv

LEMMA ReportKeepsInv ==
  ASSUME ReportInv, CallsAreGiven, MaxRecordings \in Nat, SlaWindow \in Int, Loads \subseteq Int,
         ReportStep
  PROVE  ReportInv'
BY FilesKeepInv, AuditsKeepInv, LatenciesKeepInv, PlanKeepsInv DEF ReportInv

LEMMA ReportsAreSound ==
  ASSUME ReportInv, MaxRecordings \in Nat, PageSize \in Nat, MaxSteps \in Nat,
         SlaWindow \in Int, IsFiniteSet(Customers)
  PROVE  Report!ReportsSound
<1>1. Report!TenantsAgree /\ Report!SessionsAgree /\ Report!ComparisonIsFair
  BY TenantsAlwaysAgree, SessionsAlwaysAgree, ComparisonAlwaysIsFair DEF ReportInv
<1>2. Report!AuditsAddUp /\ Report!CertificateOutOfReach
  BY AuditsAlwaysAddUp, CertificateStaysOutOfReach DEF ReportInv
<1>3. Report!LatenciesCounted /\ Report!PlanCarriesLoad
  BY LatenciesAreCounted DEF ReportInv, PlanInv
<1> QED
  BY <1>1, <1>2, <1>3 DEF Report!ReportsSound, Report!ReportsAgree

-----------------------------------------------------------------------------
(* The workbench.                                                             *)

BenchStep == [Bench!Next]_benchVars

LEMMA BenchSame ==
  /\ \A S : Bench!Cardinality(S) = Cardinality(S)
  /\ \A seq, I : Bench!Picked(seq, I) = Picked(seq, I)
  /\ \A f : Bench!Range(f) = Range(f)
BY DEF Bench!Cardinality, Cardinality, Bench!Picked, Picked, Bench!Ranked, Ranked,
  Bench!Ascending, Ascending, Bench!Range, Range

\* Of those with most, the first: what sorting by a score and taking the head comes to.
FirstOfMost(k, S, sc) ==
  \A j \in S \ {k} : sc[j] < sc[k] \/ (sc[j] = sc[k] /\ k < j)

LEMMA SomeIsFirstOfMost ==
  ASSUME NEW S, IsFiniteSet(S), S \subseteq Nat, S # {}, NEW sc, \A k \in S : sc[k] \in Int
  PROVE  \E k \in S : FirstOfMost(k, S, sc)
<1>1. PICK m \in S : \A j \in S : sc[j] <= sc[m]
  BY SomeHasMost DEF Summed
<1> DEFINE T == {j \in S : sc[j] = sc[m]}
<1>2. PICK k \in T : \A j \in T : k <= j
  <2>1. T \subseteq Nat /\ T # {}
    BY <1>1
  <2> HIDE DEF T
  <2> QED
    BY <2>1, LeastNumber
<1>3. ASSUME NEW j \in S \ {k}
      PROVE  sc[j] < sc[k] \/ (sc[j] = sc[k] /\ k < j)
  <2>1. /\ sc[j] \in Int /\ sc[m] \in Int /\ sc[k] = sc[m] /\ sc[j] <= sc[m]
        /\ j \in Nat /\ k \in Nat /\ j # k
    BY <1>1, <1>2, <1>3
  <2>2. sc[j] = sc[m] => k <= j
    BY <1>2, <1>3
  <2> QED
    BY <2>1, <2>2
<1> QED
  BY <1>2, <1>3 DEF FirstOfMost

-----------------------------------------------------------------------------
(* Annotations have identifiers of their own; what a dataset keeps is copied. *)

Noted == [id : Nat \ {0}, session : {t.session : t \in Spoken}, turn : Int,
          speaker : {t.speaker : t \in Spoken}, label : Bench!Labels]
Examples == [of : Nat, prior : Nat, label : Bench!Labels]
Dataset == [examples : Seq(Examples), sessions : SUBSET {t.session : t \in Spoken},
            good : Int, needs : Int]

NotedInv ==
  /\ benchMade \in Nat
  /\ annotations \in Seq(Noted)
  /\ \A k \in DOMAIN annotations : annotations[k].id <= benchMade
  /\ \A j, k \in DOMAIN annotations : annotations[j].id = annotations[k].id => j = k

DatasetKept(d) ==
  /\ d.good = Bench!Labelled(d.examples, "good_response")
  /\ d.needs = Bench!Labelled(d.examples, "needs_improvement")
  /\ Cardinality(d.sessions) <= Len(d.examples)
  /\ \A k \in DOMAIN d.examples : d.examples[k].prior # d.examples[k].of

DatasetsInv ==
  /\ datasets \in Seq(Dataset)
  /\ \A n \in DOMAIN datasets : DatasetKept(datasets[n])

\* An annotation stays, but for its label, or goes.
LEMMA FewerAreNoted ==
  ASSUME NotedInv, benchMade' \in Nat, benchMade <= benchMade',
         NEW I, I \subseteq DOMAIN annotations, annotations' = Picked(annotations, I)
  PROVE  NotedInv'
<1>1. PICK q : /\ Places(q, I)
               /\ Picked(annotations, I) = [k \in 1..Cardinality(I) |-> annotations[q[k]]]
  BY PickedInOrder DEF NotedInv
<1>2. annotations' \in Seq(Noted) /\ DOMAIN annotations' = 1..Cardinality(I)
  BY PickedAreThere DEF NotedInv
<1>3. \A k \in DOMAIN annotations' : annotations'[k] = annotations[q[k]] /\ q[k] \in I
  BY <1>1, <1>2 DEF Places
<1>4. \A j, k \in DOMAIN annotations' : q[j] = q[k] => j = k
  BY <1>1, <1>2 DEF Places
<1>5. \A k \in DOMAIN annotations' : annotations'[k].id <= benchMade'
  <2> TAKE k \in DOMAIN annotations'
  <2>1. annotations[q[k]].id <= benchMade /\ annotations[q[k]].id \in Nat
    <3>1. q[k] \in DOMAIN annotations
      BY <1>3
    <3>2. annotations[q[k]] \in Noted
      BY <3>1, LenProperties, ElementOfSeq DEF NotedInv
    <3> QED
      BY <3>1, <3>2 DEF NotedInv, Noted
  <2> QED
    BY <1>3, <2>1 DEF NotedInv
<1> QED
  BY <1>2, <1>3, <1>4, <1>5 DEF NotedInv

LEMMA NotedKeepsInv ==
  ASSUME NotedInv, \A t \in Spoken : t.turn \in Int, BenchStep
  PROVE  NotedInv'
<1> DEFINE n == Len(annotations)
<1>1. n \in Nat /\ DOMAIN annotations = 1..n /\ benchMade \in Nat
      /\ \A k \in 1..n : annotations[k] \in Noted
  BY LenProperties, ElementOfSeq DEF NotedInv
<1>2. ASSUME NEW t \in Spoken, NEW l \in Bench!Labels, Bench!AddAnnotation(t, l) PROVE NotedInv'
  <2> DEFINE a == [id |-> benchMade + 1, session |-> t.session, turn |-> t.turn,
                   speaker |-> t.speaker, label |-> l]
  <2>1. benchMade' = benchMade + 1 /\ annotations' = Append(annotations, a)
    BY <1>2 DEF Bench!AddAnnotation
  <2>2. a \in Noted /\ a.id = benchMade + 1
    BY <1>1 DEF Noted
  <2> HIDE DEF a
  <2>3. /\ annotations' \in Seq(Noted) /\ DOMAIN annotations' = 1..(n + 1)
        /\ \A i \in 1..n : annotations'[i] = annotations[i]
        /\ annotations'[n + 1] = a
    BY <2>1, <2>2, AppendProperties, LenProperties DEF NotedInv
  <2> HIDE DEF n
  <2>4. \A i \in 1..(n + 1) : i \in 1..n \/ i = n + 1
    BY <1>1
  <2>5. \A k \in 1..n : annotations'[k].id \in Nat /\ annotations'[k].id <= benchMade
    BY <1>1, <2>3 DEF NotedInv, Noted
  <2>6. \A k \in 1..n : annotations'[k].id < benchMade' /\ annotations'[k].id # a.id
    BY <1>1, <2>1, <2>2, <2>5
  <2>7. \A k \in DOMAIN annotations' : annotations'[k].id <= benchMade'
    BY <1>1, <2>1, <2>2, <2>3, <2>4, <2>5
  <2>8. ASSUME NEW j \in DOMAIN annotations', NEW k \in DOMAIN annotations',
               annotations'[j].id = annotations'[k].id
        PROVE  j = k
    <3>1. CASE j \in 1..n /\ k \in 1..n
      BY <1>1, <2>3, <2>8, <3>1 DEF NotedInv
    <3>2. CASE j = n + 1 \/ k = n + 1
      BY <2>3, <2>4, <2>6, <2>8, <3>2
    <3> QED
      BY <2>3, <2>4, <3>1, <3>2
  <2> QED
    BY <1>1, <2>1, <2>3, <2>7, <2>8 DEF NotedInv
<1>3. ASSUME NEW i \in 1..benchMade, Bench!DeleteAnnotation(i) PROVE NotedInv'
  <2> DEFINE I == DOMAIN annotations \ {Bench!Annotation(i)}
  <2>1. annotations' = Picked(annotations, I) /\ benchMade' = benchMade
    BY <1>3, BenchSame DEF Bench!DeleteAnnotation
  <2>2. I \subseteq DOMAIN annotations
    OBVIOUS
  <2> HIDE DEF I
  <2> QED
    BY <1>1, <2>1, <2>2, FewerAreNoted
<1>4. ASSUME NEW i \in 1..benchMade, NEW l \in Bench!Labels, Bench!UpdateAnnotationLabel(i, l)
      PROVE  NotedInv'
  <2> DEFINE m == Bench!Annotation(i)
             a == [annotations[m] EXCEPT !.label = l]
  <2>1. annotations' = [annotations EXCEPT ![m] = a] /\ benchMade' = benchMade
    BY <1>4 DEF Bench!UpdateAnnotationLabel
  <2>2. m \in 1..n
    BY <1>1, <1>4 DEF Bench!UpdateAnnotationLabel, Bench!Known, Bench!Annotation
  <2> HIDE DEF m
  <2>3. a \in Noted /\ a.id = annotations[m].id
    BY <1>1, <2>2 DEF Noted
  <2> HIDE DEF a
  <2>4. /\ annotations' \in Seq(Noted) /\ DOMAIN annotations' = 1..n
        /\ \A k \in 1..n : annotations'[k] = IF k = m THEN a ELSE annotations[k]
    <3>1. annotations' \in Seq(Noted) /\ Len(annotations') = n
      BY <2>1, <2>2, <2>3, ExceptSeq DEF NotedInv
    <3>2. DOMAIN annotations' = 1..n
      BY <3>1, LenProperties
    <3> QED
      BY <1>1, <2>1, <2>2, <3>1, <3>2
  <2> HIDE DEF n
  <2>5. \A k \in 1..n : annotations'[k].id = annotations[k].id
    BY <2>3, <2>4
  <2> QED
    BY <1>1, <2>1, <2>4, <2>5 DEF NotedInv
<1>5. ASSUME NEW f, Bench!BuildDataset(f) PROVE NotedInv'
  BY <1>5 DEF Bench!BuildDataset, NotedInv
<1>6. CASE Bench!DatasetsNext
  BY <1>2, <1>3, <1>4, <1>5, <1>6 DEF Bench!DatasetsNext
<1>7. CASE Bench!DemoNext \/ Bench!ScanNext \/ UNCHANGED benchVars
  <2>1. UNCHANGED <<annotations, benchMade>>
    BY <1>7 DEF Bench!DemoNext, Bench!ScanNext, benchVars
  <2> QED
    BY <2>1 DEF NotedInv
<1> QED
  BY <1>6, <1>7 DEF BenchStep, Bench!Next

\* No turn answers one that came after it.
LEMMA PriorIsEarlier ==
  ASSUME NotedInv, NEW i \in DOMAIN annotations, NEW a, a = annotations[i]
  PROVE  Bench!FindPriorUserTurn(a) \in Nat /\ Bench!FindPriorUserTurn(a) # a.id
<1> DEFINE n == Len(annotations)
           before == {k \in DOMAIN annotations : /\ annotations[k].session = a.session
                                                 /\ annotations[k].speaker = "user"
                                                 /\ annotations[k].turn < a.turn}
           turnOf == [k \in DOMAIN annotations |-> annotations[k].turn]
           first(k) == \A j \in before \ {k} :
             \/ annotations[j].turn < annotations[k].turn
             \/ annotations[j].turn = annotations[k].turn /\ k < j
           k0 == CHOOSE k \in before : first(k)
<1>1. n \in Nat /\ DOMAIN annotations = 1..n
      /\ \A k \in 1..n : annotations[k] \in Noted
  BY LenProperties, ElementOfSeq DEF NotedInv
<1>2. Bench!FindPriorUserTurn(a) = IF before = {} THEN 0 ELSE annotations[k0].id
  BY DEF Bench!FindPriorUserTurn
<1>3. a.id \in Nat \ {0} /\ a.turn \in Int
  BY <1>1 DEF Noted
<1>4. ASSUME before # {} PROVE k0 \in before
  <2>1. IsFiniteSet(1..n) /\ 1..n \subseteq Nat
    BY <1>1, FS_Interval
  <2>2. IsFiniteSet(before) /\ before \subseteq Nat
    BY <1>1, <2>1, FS_Subset
  <2>3. \A k \in before : turnOf[k] = annotations[k].turn /\ turnOf[k] \in Int
    BY <1>1 DEF Noted
  <2>4. \E k \in before : FirstOfMost(k, before, turnOf)
    <3> HIDE DEF before, turnOf
    <3> QED
      BY <1>4, <2>2, <2>3, SomeIsFirstOfMost
  <2>5. \E k \in before : first(k)
    <3> HIDE DEF before, turnOf
    <3> QED
      BY <2>3, <2>4 DEF FirstOfMost
  <2> HIDE DEF before, first
  <2> QED
    BY <2>5
<1> HIDE DEF k0
<1>5. ASSUME before # {}
      PROVE  annotations[k0].id \in Nat /\ annotations[k0].id # a.id
  <2>1. k0 \in 1..n /\ annotations[k0].turn < a.turn
    BY <1>1, <1>4, <1>5
  <2>2. annotations[k0] \in Noted
    BY <1>1, <2>1
  <2>3. k0 # i
    BY <1>3, <2>1
  <2> QED
    BY <1>1, <2>1, <2>2, <2>3 DEF NotedInv, Noted
<1> QED
  BY <1>2, <1>3, <1>5

LEMMA DatasetsKeepInv ==
  ASSUME NotedInv, DatasetsInv, BenchStep
  PROVE  DatasetsInv'
<1>1. ASSUME NEW f \in Filters, Bench!BuildDataset(f) PROVE DatasetsInv'
  <2> DEFINE I == {k \in DOMAIN annotations :
                    /\ f.labels # {} => annotations[k].label \in f.labels
                    /\ f.sessions # {} => annotations[k].session \in f.sessions
                    /\ f.from # 0 => annotations[k].id >= f.from
                    /\ f.to # 0 => annotations[k].id <= f.to}
             q == Picked(annotations, I)
             n == Len(q)
             ex == [k \in DOMAIN q |-> Bench!Example(q[k])]
             names == {q[k].session : k \in DOMAIN q}
             d == [examples |-> ex, sessions |-> names,
                   good |-> Bench!Labelled(q, "good_response"),
                   needs |-> Bench!Labelled(q, "needs_improvement")]
  <2>1. datasets' = Append(datasets, d)
    BY <1>1, BenchSame DEF Bench!BuildDataset, Bench!ApplyFilters
  <2>2. I \subseteq DOMAIN annotations
    OBVIOUS
  <2> HIDE DEF I
  <2>3. /\ q \in Seq(Noted) /\ Range(q) \subseteq Range(annotations)
        /\ n \in Nat /\ DOMAIN q = 1..n
    BY <2>2, PickedAreThere, PickedAreOf, LenProperties DEF NotedInv
  <2> HIDE DEF q, n
  <2>4. ASSUME NEW k \in 1..n
        PROVE  /\ q[k] \in Noted /\ Bench!Example(q[k]) \in Examples
               /\ Bench!Example(q[k]).of = q[k].id /\ Bench!Example(q[k]).label = q[k].label
               /\ Bench!Example(q[k]).prior # Bench!Example(q[k]).of
    <3> DEFINE prior == Bench!FindPriorUserTurn(q[k])
    <3>1. q[k] \in Range(q)
      BY <2>3 DEF Range
    <3>2. PICK i \in DOMAIN annotations : q[k] = annotations[i]
      BY <2>3, <3>1 DEF Range
    <3>3. q[k] \in Noted
      BY <3>2, LenProperties, ElementOfSeq DEF NotedInv
    <3>4. prior \in Nat /\ prior # q[k].id
      BY <3>2, PriorIsEarlier
    <3>5. Bench!Example(q[k]) = [of |-> q[k].id, prior |-> prior, label |-> q[k].label]
      BY DEF Bench!Example
    <3> HIDE DEF prior
    <3> QED
      BY <3>3, <3>4, <3>5 DEF Examples, Noted
  <2>5. ex \in Seq(Examples) /\ DOMAIN ex = 1..n /\ Len(ex) = n
        /\ \A k \in 1..n : ex[k] = Bench!Example(q[k])
    <3>1. ex = [k \in 1..n |-> Bench!Example(q[k])]
      BY <2>3
    <3>2. [k \in 1..n |-> Bench!Example(q[k])] \in Seq(Examples)
      BY <2>3, <2>4, IsASeq
    <3>3. ex \in Seq(Examples) /\ DOMAIN ex = 1..n
      BY <3>1, <3>2
    <3>4. Len(ex) \in Nat /\ DOMAIN ex = 1..Len(ex)
      BY <3>3, LenProperties
    <3>5. Len(ex) = n
      BY <2>3, <3>3, <3>4
    <3> QED
      BY <3>1, <3>3, <3>5
  <2> HIDE DEF ex
  <2>6. ASSUME NEW l
        PROVE  Bench!Labelled(ex, l) = Bench!Labelled(q, l) /\ Bench!Labelled(q, l) \in Int
    <3> DEFINE K == {k \in DOMAIN q : q[k].label = l}
    <3>1. {k \in DOMAIN ex : ex[k].label = l} = K
      BY <2>3, <2>4, <2>5
    <3>2. IsFiniteSet(1..n) /\ K \subseteq 1..n
      BY <2>3, FS_Interval
    <3>3. Cardinality(K) \in Int
      <4> HIDE DEF K
      <4>1. IsFiniteSet(K)
        BY <3>2, FS_Subset
      <4>2. Cardinality(K) \in Nat
        BY <4>1, FS_CardinalityType
      <4> QED
        BY <4>2
    <3> QED
      BY <3>1, <3>3, BenchSame DEF Bench!Labelled
  <2>7. /\ names \subseteq {t.session : t \in Spoken}
        /\ Cardinality(names) <= n
    <3> DEFINE g == [k \in 1..n |-> q[k].session]
    <3>1. names = {q[k].session : k \in 1..n}
      BY <2>3
    <3>2. \A k \in 1..n : q[k].session \in {t.session : t \in Spoken}
      BY <2>4 DEF Noted
    <3>3. g \in Surjection(1..n, names)
      BY <3>1 DEF Surjection
    <3>4. IsFiniteSet(1..n) /\ Cardinality(1..n) = n
      BY <2>3, FS_Interval
    <3>5. Cardinality(names) <= Cardinality(1..n)
      <4> HIDE DEF g, names
      <4> QED
        BY <3>3, <3>4, FS_Surjection
    <3> QED
      BY <3>1, <3>2, <3>4, <3>5
  <2> HIDE DEF names
  <2>8. d \in Dataset
    BY <2>5, <2>6, <2>7 DEF Dataset
  <2>9. DatasetKept(d)
    <3>1. /\ d.examples = ex /\ d.sessions = names
          /\ d.good = Bench!Labelled(q, "good_response")
          /\ d.needs = Bench!Labelled(q, "needs_improvement")
      OBVIOUS
    <3>2. \A k \in DOMAIN ex : ex[k].prior # ex[k].of
      BY <2>4, <2>5
    <3> HIDE DEF d
    <3> QED
      BY <2>5, <2>6, <2>7, <3>1, <3>2 DEF DatasetKept
  <2> HIDE DEF d
  <2> DEFINE m == Len(datasets)
  <2>10. /\ m \in Nat /\ DOMAIN datasets = 1..m
         /\ datasets' \in Seq(Dataset) /\ DOMAIN datasets' = 1..(m + 1)
         /\ \A i \in 1..m : datasets'[i] = datasets[i]
         /\ datasets'[m + 1] = d
    BY <2>1, <2>8, AppendProperties, LenProperties DEF DatasetsInv
  <2> HIDE DEF m
  <2>11. \A i \in 1..(m + 1) : i \in 1..m \/ i = m + 1
    BY <2>10
  <2> QED
    BY <2>9, <2>10, <2>11 DEF DatasetsInv
<1>2. CASE Bench!DatasetsNext
  <2>1. \/ \E f \in Filters : Bench!BuildDataset(f)
        \/ UNCHANGED datasets
    BY <1>2 DEF Bench!DatasetsNext, Bench!AddAnnotation, Bench!DeleteAnnotation,
      Bench!UpdateAnnotationLabel
  <2> QED
    BY <1>1, <2>1 DEF DatasetsInv
<1>3. CASE Bench!DemoNext \/ Bench!ScanNext \/ UNCHANGED benchVars
  <2>1. UNCHANGED datasets
    BY <1>3 DEF Bench!DemoNext, Bench!ScanNext, benchVars
  <2> QED
    BY <2>1 DEF DatasetsInv
<1> QED
  BY <1>2, <1>3 DEF BenchStep, Bench!Next

LEMMA DatasetsStayKept ==
  ASSUME DatasetsInv
  PROVE  Bench!DatasetsKept
BY BenchSame DEF DatasetsInv, DatasetKept, Bench!DatasetsKept

-----------------------------------------------------------------------------
(* Demos. What the events of a kind say, and what the playback remembers.     *)

Turned == UNION {{s[i] : i \in DOMAIN s} : s \in Scripts}
Decisions == {t.decision : t \in Turned}
Moods == {t.mood : t \in Turned} \union {Bench!None}
Events == {<<"turn", t.speaker>> : t \in Turned} \union {<<"sentiment", t.mood>> : t \in Turned}
            \union {<<"policy", t.decision>> : t \in Turned} \union {<<"session_start">>}

Kinds(events, kind) == {i \in DOMAIN events : events[i][1] = kind}
Told(q) == [k \in DOMAIN q |-> q[k][2]]
LastTold(q) == IF q = <<>> THEN Bench!None ELSE q[Len(q)][2]

LEMMA EventsOfAppend ==
  ASSUME NEW V, NEW events \in Seq(V), NEW e \in V, NEW kind
  PROVE  /\ Bench!EventsOf(events, kind) \in Seq(V)
         /\ Bench!EventsOf(Append(events, e), kind) =
              IF e[1] = kind THEN Append(Bench!EventsOf(events, kind), e)
                             ELSE Bench!EventsOf(events, kind)
<1> DEFINE n == Len(events)
           I == Kinds(events, kind)
           J == Kinds(Append(events, e), kind)
<1>1. /\ n \in Nat /\ DOMAIN events = 1..n
      /\ DOMAIN Append(events, e) = 1..(n + 1)
      /\ \A i \in 1..n : Append(events, e)[i] = events[i]
      /\ Append(events, e)[n + 1] = e
  BY AppendProperties, LenProperties
<1>2. I \subseteq DOMAIN events
  BY DEF Kinds
<1>3. /\ Bench!EventsOf(events, kind) = Picked(events, I)
      /\ Bench!EventsOf(Append(events, e), kind) = Picked(Append(events, e), J)
  BY BenchSame DEF Bench!EventsOf, Kinds
<1>4. J = IF e[1] = kind THEN I \union {n + 1} ELSE I
  <2> HIDE DEF n
  <2>1. \A i \in 1..(n + 1) : i \in 1..n \/ i = n + 1
    BY <1>1
  <2>2. n + 1 \in 1..(n + 1) /\ 1..n \subseteq 1..(n + 1)
    BY <1>1
  <2> QED
    BY <1>1, <2>1, <2>2 DEF Kinds
<1> HIDE DEF I, J
<1>5. /\ Picked(Append(events, e), I) = Picked(events, I)
      /\ Picked(Append(events, e), I \union {n + 1}) = Append(Picked(events, I), e)
      /\ Picked(events, I) \in Seq(V)
  BY <1>2, PickedOfAppend, PickedAreThere
<1> QED
  BY <1>3, <1>4, <1>5

\* So many turns were played, and this is what was decided and felt in them.
Tells(events, n, decided, mood) ==
  /\ events \in Seq(Events) /\ events # <<>> /\ events[1] = <<"session_start">>
  /\ Len(Bench!EventsOf(events, "turn")) = n
  /\ decided = Told(Bench!EventsOf(events, "policy")) /\ decided \in Seq(Decisions)
  /\ mood = LastTold(Bench!EventsOf(events, "sentiment"))
  /\ Bench!EventsOf(events, "summary") = <<>>

LEMMA ToldOfAppend ==
  ASSUME NEW V, NEW q \in Seq(V), NEW e \in V, NEW W, Told(q) \in Seq(W), e[2] \in W
  PROVE  Told(Append(q, e)) = Append(Told(q), e[2]) /\ Append(Told(q), e[2]) \in Seq(W)
<1> DEFINE n == Len(q)
           b == Append(q, e)
           c == Append(Told(q), e[2])
<1>1. /\ n \in Nat /\ DOMAIN q = 1..n
      /\ b \in Seq(V) /\ DOMAIN b = 1..(n + 1) /\ b[n + 1] = e
      /\ \A i \in 1..n : b[i] = q[i]
  BY AppendProperties, LenProperties
<1>2. Len(Told(q)) = n
  <2>1. DOMAIN Told(q) = 1..n
    BY <1>1 DEF Told
  <2>2. Len(Told(q)) \in Nat /\ DOMAIN Told(q) = 1..Len(Told(q))
    BY LenProperties
  <2> QED
    BY <1>1, <2>1, <2>2
<1>3. /\ c \in Seq(W) /\ DOMAIN c = 1..(n + 1) /\ c[n + 1] = e[2]
      /\ \A i \in 1..n : c[i] = Told(q)[i]
  BY <1>2, AppendProperties, LenProperties
<1> HIDE DEF b, c, n
<1>4. \A i \in 1..(n + 1) : b[i][2] = c[i]
  <2>1. \A i \in 1..(n + 1) : i \in 1..n \/ i = n + 1
    BY <1>1
  <2> QED
    BY <1>1, <1>3, <2>1 DEF Told
<1>5. Told(b) = [i \in 1..(n + 1) |-> b[i][2]] /\ c = [i \in 1..(n + 1) |-> c[i]]
  BY <1>1, <1>3 DEF Told
<1>6. Told(b) = c
  BY <1>4, <1>5
<1> QED
  BY <1>3, <1>6 DEF b, c

LEMMA TellsOneMore ==
  ASSUME NEW events, NEW n \in Nat, NEW decided, NEW mood, Tells(events, n, decided, mood),
         NEW e \in Events, e[1] # "summary"
  PROVE  Tells(Append(events, e), IF e[1] = "turn" THEN n + 1 ELSE n,
               IF e[1] = "policy" THEN Append(decided, e[2]) ELSE decided,
               IF e[1] = "sentiment" THEN e[2] ELSE mood)
<1> DEFINE b == Append(events, e)
           m == Len(events)
<1>1. events \in Seq(Events) /\ events # <<>>
  BY DEF Tells
<1>2. /\ b \in Seq(Events) /\ b # <<>> /\ b[1] = <<"session_start">>
  <2>1. /\ m \in Nat /\ DOMAIN events = 1..m /\ m > 0
        /\ b \in Seq(Events) /\ Len(b) = m + 1
        /\ \A i \in 1..m : b[i] = events[i]
    BY <1>1, AppendProperties, LenProperties, EmptySeq
  <2> HIDE DEF b, m
  <2>2. 1 \in 1..m /\ m + 1 # 0
    BY <2>1
  <2>3. b # <<>>
    BY <2>1, <2>2, EmptySeq
  <2> QED
    BY <2>1, <2>2, <2>3 DEF Tells
<1>3. ASSUME NEW kind
      PROVE  /\ Bench!EventsOf(events, kind) \in Seq(Events)
             /\ Bench!EventsOf(b, kind) = IF e[1] = kind THEN Append(Bench!EventsOf(events, kind), e)
                                                         ELSE Bench!EventsOf(events, kind)
  BY <1>1, EventsOfAppend
<1> HIDE DEF b
<1>4. Bench!EventsOf(b, "summary") = <<>>
  BY <1>3 DEF Tells
<1>5. Len(Bench!EventsOf(b, "turn")) = IF e[1] = "turn" THEN n + 1 ELSE n
  <2>1. Len(Append(Bench!EventsOf(events, "turn"), e)) = Len(Bench!EventsOf(events, "turn")) + 1
    BY <1>3, AppendProperties
  <2> QED
    BY <1>3, <2>1 DEF Tells
<1>6. LET d == IF e[1] = "policy" THEN Append(decided, e[2]) ELSE decided
      IN  d = Told(Bench!EventsOf(b, "policy")) /\ d \in Seq(Decisions)
  <2>1. CASE e[1] = "policy"
    <3> DEFINE q == Bench!EventsOf(events, "policy")
    <3>1. q \in Seq(Events) /\ Told(q) \in Seq(Decisions) /\ decided = Told(q)
      BY <1>3 DEF Tells
    <3>2. e[2] \in Decisions
      BY <2>1 DEF Events, Decisions
    <3>3. Bench!EventsOf(b, "policy") = Append(q, e)
      BY <1>3, <2>1
    <3> HIDE DEF q
    <3>4. Told(Append(q, e)) = Append(Told(q), e[2]) /\ Append(Told(q), e[2]) \in Seq(Decisions)
      BY <3>1, <3>2, ToldOfAppend
    <3> QED
      BY <2>1, <3>1, <3>3, <3>4
  <2>2. CASE e[1] # "policy"
    BY <1>3, <2>2 DEF Tells
  <2> QED
    BY <2>1, <2>2
<1>7. (IF e[1] = "sentiment" THEN e[2] ELSE mood) = LastTold(Bench!EventsOf(b, "sentiment"))
  <2>1. CASE e[1] = "sentiment"
    <3> DEFINE q == Bench!EventsOf(events, "sentiment")
               c == Append(q, e)
    <3>1. /\ Len(q) \in Nat /\ c \in Seq(Events) /\ Len(c) = Len(q) + 1
          /\ c[Len(q) + 1] = e
      BY <1>3, AppendProperties, LenProperties
    <3>2. Bench!EventsOf(b, "sentiment") = c
      BY <1>3, <2>1
    <3> HIDE DEF q, c
    <3>3. c # <<>> /\ c[Len(c)] = e
      BY <3>1, EmptySeq
    <3> QED
      BY <2>1, <3>2, <3>3 DEF LastTold
  <2>2. CASE e[1] # "sentiment"
    BY <1>3, <2>2 DEF Tells
  <2> QED
    BY <2>1, <2>2
<1> QED
  BY <1>2, <1>4, <1>5, <1>6, <1>7 DEF Tells, b

LEMMA TellsNothingYet == Tells(<<<<"session_start">>>>, 0, <<>>, Bench!None)
<1> DEFINE e == <<"session_start">>
           b == <<e>>
<1>1. e \in Events /\ b = Append(<<>>, e) /\ <<>> \in Seq(Events)
  BY DEF Events
<1>2. /\ b \in Seq(Events) /\ b # <<>> /\ b[1] = e
  BY <1>1
<1>3. \A kind : Bench!EventsOf(<<>>, kind) = <<>>
  <2> TAKE kind
  <2> DEFINE q == Bench!EventsOf(<<>>, kind)
             I == Kinds(<<>>, kind)
  <2>1. q = Picked(<<>>, I) /\ I = {} /\ I \subseteq DOMAIN <<>>
    BY BenchSame DEF Bench!EventsOf, Kinds
  <2> HIDE DEF I, q
  <2>2. q \in Seq(Events) /\ Len(q) = Cardinality(I)
    <3> DEFINE none == <<>>
    <3>1. none \in Seq(Events) /\ q = Picked(none, I) /\ I \subseteq DOMAIN none
      BY <1>1, <2>1
    <3> HIDE DEF none
    <3> QED
      BY <3>1, PickedAreThere
  <2>3. Len(q) = 0
    BY <2>1, <2>2, FS_EmptySet
  <2>4. q = <<>>
    BY <2>2, <2>3, EmptySeq
  <2> QED
    BY <2>4 DEF q
<1>4. ASSUME NEW kind, e[1] # kind PROVE Bench!EventsOf(b, kind) = <<>>
  <2> HIDE DEF e
  <2> DEFINE none == <<>>
  <2>1. none \in Seq(Events) /\ e \in Events /\ b = Append(none, e)
    BY <1>1
  <2>2. Bench!EventsOf(none, kind) = none
    BY <1>3
  <2> HIDE DEF none, b
  <2>3. Bench!EventsOf(b, kind) = none
    BY <1>4, <2>1, <2>2, EventsOfAppend
  <2> QED
    BY <2>3 DEF none
<1>5. Told(<<>>) = <<>> /\ <<>> \in Seq(Decisions) /\ Len(<<>>) = 0
      /\ LastTold(<<>>) = Bench!None
  BY DEF Told, LastTold
<1>6. \A kind \in {"turn", "policy", "sentiment", "summary"} : Bench!EventsOf(b, kind) = <<>>
  BY <1>4
<1> HIDE DEF b
<1> QED
  BY <1>2, <1>5, <1>6 DEF Tells, b

-----------------------------------------------------------------------------
\* A demo by its stage: nothing yet; so many turns told; or over, and told to its end.
Listed(events) ==
  /\ events[1] = <<"session_start">>
  /\ events[Len(events)] = <<"session_end">>
  /\ Len(Bench!EventsOf(events, "summary")) = 1
  /\ LET s == Bench!EventsOf(events, "summary")[1][2]
         decided == Bench!EventsOf(events, "policy")
         felt == Bench!EventsOf(events, "sentiment")
     IN  /\ s.turns = Len(Bench!EventsOf(events, "turn"))
         /\ s.decisions = [k \in DOMAIN decided |-> decided[k][2]]
         /\ s.escalated <=> \E k \in DOMAIN decided : decided[k][2] = "escalate"
         /\ s.mood = IF felt = <<>> THEN Bench!None ELSE felt[Len(felt)][2]

PlayingInv(d) ==
  /\ demo[d].script \in Scripts
  /\ demo[d].turn \in 1..(Len(demo[d].script) + 1)
  /\ Tells(emitted[d], demo[d].turn - 1, policyDecisions[d], lastSentiment[d])

OneDemoInv(d) ==
  /\ demo[d].stage = "unborn" =>
       emitted[d] = <<>> /\ policyDecisions[d] = <<>> /\ lastSentiment[d] = Bench!None
  /\ demo[d].stage = "playing" => PlayingInv(d)
  /\ demo[d].stage = "listed" => Listed(emitted[d])

DemoInv ==
  /\ demo \in [Demos -> [stage : {"unborn", "playing", "listed", "gone"},
                        script : Scripts \union {<<>>}, turn : Nat]]
  /\ emitted \in [Demos -> {emitted[d] : d \in Demos}]
  /\ policyDecisions \in [Demos -> {policyDecisions[d] : d \in Demos}]
  /\ lastSentiment \in [Demos -> {lastSentiment[d] : d \in Demos}]
  /\ \A d \in Demos : OneDemoInv(d)

\* The end: the summary says what the events said.
LEMMA EndIsListed ==
  ASSUME NEW events, NEW n \in Nat, NEW decided, NEW mood, Tells(events, n, decided, mood),
         NEW said, said.turns = n, said.decisions = decided, said.mood = mood,
         said.escalated <=> "escalate" \in Range(decided)
  PROVE  Listed(events \o <<<<"summary", said>>, <<"session_end">>>>)
<1> DEFINE a == <<"summary", said>>
           z == <<"session_end">>
           V == Events \union {a, z}
           b == Append(events, a)
           c == Append(b, z)
           m == Len(events)
<1>1. events \in Seq(V) /\ events # <<>> /\ a \in V /\ z \in V
  BY SeqMonotonic DEF Tells
<1>2. /\ a[1] = "summary" /\ a[2] = said /\ z[1] = "session_end"
  OBVIOUS
<1> HIDE DEF V, a, z
<1>3. /\ m \in Nat /\ m > 0 /\ DOMAIN events = 1..m
      /\ b \in Seq(V) /\ Len(b) = m + 1 /\ b[m + 1] = a /\ \A i \in 1..m : b[i] = events[i]
  BY <1>1, AppendProperties, LenProperties, EmptySeq
<1> HIDE DEF b
<1>4. /\ c \in Seq(V) /\ Len(c) = m + 2 /\ c[m + 2] = z
      /\ \A i \in 1..(m + 1) : c[i] = b[i]
  <2>1. /\ c \in Seq(V) /\ Len(c) = Len(b) + 1 /\ c[Len(b) + 1] = z
        /\ \A i \in 1..Len(b) : c[i] = b[i]
    BY <1>1, <1>3, AppendProperties
  <2> HIDE DEF c
  <2> QED
    BY <1>3, <2>1
<1>5. events \o <<a, z>> = c
  <2> DEFINE t == <<a, z>>
             e == events \o t
  <2>1. t \in Seq(V) /\ Len(t) = 2 /\ t[1] = a /\ t[2] = z
    BY <1>1
  <2> HIDE DEF t
  <2>2. /\ e \in Seq(V) /\ Len(e) = m + 2
        /\ \A i \in 1..(m + 2) : e[i] = IF i <= m THEN events[i] ELSE t[i - m]
    <3>0. events \in Seq(V) /\ t \in Seq(V)
      BY <1>1, <2>1
    <3>1. /\ e \in Seq(V) /\ Len(e) = m + Len(t)
          /\ \A i \in 1..(m + Len(t)) : e[i] = IF i <= m THEN events[i] ELSE t[i - m]
      BY <3>0, ConcatProperties
    <3> HIDE DEF e, m
    <3> QED
      BY <2>1, <3>1
  <2> HIDE DEF e, c, m
  <2>3. ASSUME NEW i \in 1..(m + 2) PROVE e[i] = c[i]
    <3>1. CASE i \in 1..m
      BY <1>3, <1>4, <2>2, <3>1
    <3>2. CASE i = m + 1
      <4>1. i - m = 1 /\ ~(i <= m) /\ i \in 1..(m + 1)
        BY <1>3, <3>2
      <4> QED
        BY <1>3, <1>4, <2>1, <2>2, <3>2, <4>1
    <3>3. CASE i = m + 2
      <4>1. i - m = 2 /\ ~(i <= m)
        BY <1>3, <3>3
      <4> QED
        BY <1>4, <2>1, <2>2, <3>3, <4>1
    <3> QED
      BY <1>3, <3>1, <3>2, <3>3
  <2>4. e = c
    BY <1>4, <2>2, <2>3, SeqEqual
  <2> QED
    BY <2>4 DEF e, t
<1>6. ASSUME NEW kind
      PROVE  Bench!EventsOf(c, kind) = IF kind = "summary" THEN Append(Bench!EventsOf(events, kind), a)
                                       ELSE IF kind = "session_end"
                                            THEN Append(Bench!EventsOf(events, kind), z)
                                            ELSE Bench!EventsOf(events, kind)
  <2>1. Bench!EventsOf(c, kind) = IF z[1] = kind THEN Append(Bench!EventsOf(b, kind), z)
                                                 ELSE Bench!EventsOf(b, kind)
    BY <1>1, <1>3, EventsOfAppend
  <2>2. Bench!EventsOf(b, kind) = IF a[1] = kind THEN Append(Bench!EventsOf(events, kind), a)
                                                 ELSE Bench!EventsOf(events, kind)
    BY <1>1, EventsOfAppend DEF b
  <2> QED
    BY <1>2, <2>1, <2>2
<1> HIDE DEF c
<1>7. c[1] = <<"session_start">> /\ c[Len(c)] = <<"session_end">>
  <2>1. 1 \in 1..m /\ 1 \in 1..(m + 1)
    BY <1>3
  <2> QED
    BY <1>3, <1>4, <2>1 DEF Tells, z
<1>8. Bench!EventsOf(c, "summary") = <<a>> /\ Len(Bench!EventsOf(c, "summary")) = 1
  <2>1. Bench!EventsOf(c, "summary") = Append(<<>>, a)
    BY <1>6 DEF Tells
  <2> QED
    BY <2>1
<1>9. /\ Bench!EventsOf(c, "turn") = Bench!EventsOf(events, "turn")
      /\ Bench!EventsOf(c, "policy") = Bench!EventsOf(events, "policy")
      /\ Bench!EventsOf(c, "sentiment") = Bench!EventsOf(events, "sentiment")
  BY <1>6
<1>10. Bench!EventsOf(c, "summary")[1][2] = said
  BY <1>2, <1>8
<1>11. said.escalated <=> \E k \in DOMAIN Bench!EventsOf(events, "policy") :
                            Bench!EventsOf(events, "policy")[k][2] = "escalate"
  BY DEF Tells, Told, Range
<1>12. Listed(c)
  BY <1>7, <1>8, <1>9, <1>10, <1>11 DEF Listed, Tells, Told, LastTold
<1> QED
  BY <1>5, <1>12 DEF a, z

LEMMA OneDemoMoves ==
  ASSUME DemoInv, NEW d \in Demos, NEW r \in [stage : {"unborn", "playing", "listed", "gone"},
                                              script : Scripts \union {<<>>}, turn : Nat],
         NEW events, NEW decided, NEW mood, demo' = [demo EXCEPT ![d] = r],
         emitted' = [emitted EXCEPT ![d] = events],
         policyDecisions' = [policyDecisions EXCEPT ![d] = decided],
         lastSentiment' = [lastSentiment EXCEPT ![d] = mood],
         r.stage = "unborn" => FALSE,
         r.stage = "playing" => /\ r.script \in Scripts /\ r.turn \in 1..(Len(r.script) + 1)
                                /\ Tells(events, r.turn - 1, decided, mood),
         r.stage = "listed" => Listed(events)
  PROVE  DemoInv'
<1>1. /\ demo' \in [Demos -> [stage : {"unborn", "playing", "listed", "gone"},
                              script : Scripts \union {<<>>}, turn : Nat]]
      /\ demo'[d] = r /\ \A x \in Demos \ {d} : demo'[x] = demo[x]
  BY DEF DemoInv
<1>2. /\ emitted' \in [Demos -> {emitted'[x] : x \in Demos}]
      /\ emitted'[d] = events /\ \A x \in Demos \ {d} : emitted'[x] = emitted[x]
  BY DEF DemoInv
<1>3. /\ policyDecisions' \in [Demos -> {policyDecisions'[x] : x \in Demos}]
      /\ policyDecisions'[d] = decided
      /\ \A x \in Demos \ {d} : policyDecisions'[x] = policyDecisions[x]
  BY DEF DemoInv
<1>4. /\ lastSentiment' \in [Demos -> {lastSentiment'[x] : x \in Demos}]
      /\ lastSentiment'[d] = mood
      /\ \A x \in Demos \ {d} : lastSentiment'[x] = lastSentiment[x]
  BY DEF DemoInv
<1>5. OneDemoInv(d)'
  BY <1>1, <1>2, <1>3, <1>4 DEF OneDemoInv, PlayingInv
<1>6. ASSUME NEW x \in Demos \ {d} PROVE OneDemoInv(x)'
  BY <1>1, <1>2, <1>3, <1>4 DEF DemoInv, OneDemoInv, PlayingInv
<1> QED
  BY <1>1, <1>2, <1>3, <1>4, <1>5, <1>6 DEF DemoInv

\* A turn: one event, and one more for its mood and for its decision.
LEMMA TurnTells ==
  ASSUME NEW events, NEW n \in Nat, NEW decided, NEW mood, Tells(events, n, decided, mood),
         NEW t \in Turned, NEW felt \in BOOLEAN, NEW ruled \in BOOLEAN
  PROVE  Tells(events \o (<<<<"turn", t.speaker>>>>
                            \o (IF felt THEN <<<<"sentiment", t.mood>>>> ELSE <<>>)
                            \o (IF ruled THEN <<<<"policy", t.decision>>>> ELSE <<>>)),
               n + 1, IF ruled THEN Append(decided, t.decision) ELSE decided,
               IF felt THEN t.mood ELSE mood)
<1> DEFINE a == <<"turn", t.speaker>>
           b == <<"sentiment", t.mood>>
           c == <<"policy", t.decision>>
           B == IF felt THEN <<b>> ELSE <<>>
           C == IF ruled THEN <<c>> ELSE <<>>
           e1 == Append(events, a)
           e2 == IF felt THEN Append(e1, b) ELSE e1
           e3 == IF ruled THEN Append(e2, c) ELSE e2
           m == IF felt THEN t.mood ELSE mood
           r == IF ruled THEN Append(decided, t.decision) ELSE decided
<1>1. /\ a \in Events /\ b \in Events /\ c \in Events
      /\ a[1] = "turn" /\ b[1] = "sentiment" /\ c[1] = "policy"
      /\ b[2] = t.mood /\ c[2] = t.decision
  BY DEF Events
<1> HIDE DEF a, b, c
<1>2. Tells(e1, n + 1, decided, mood)
  BY <1>1, TellsOneMore
<1> HIDE DEF e1
<1>3. Tells(e2, n + 1, decided, m)
  <2>1. CASE felt
    <3>1. Tells(Append(e1, b), n + 1, decided, t.mood)
      BY <1>1, <1>2, TellsOneMore
    <3> QED
      BY <2>1, <3>1
  <2>2. CASE ~felt
    BY <1>2, <2>2
  <2> QED
    BY <2>1, <2>2
<1> HIDE DEF m, e2
<1>4. Tells(e3, n + 1, r, m)
  <2>1. CASE ruled
    <3>1. Tells(Append(e2, c), n + 1, Append(decided, t.decision), m)
      BY <1>1, <1>3, TellsOneMore
    <3> QED
      BY <2>1, <3>1
  <2>2. CASE ~ruled
    BY <1>3, <2>2
  <2> QED
    BY <2>1, <2>2
<1> HIDE DEF r
<1>5. /\ events \in Seq(Events) /\ <<a>> \in Seq(Events)
      /\ B \in Seq(Events) /\ C \in Seq(Events) /\ e1 \in Seq(Events) /\ e2 \in Seq(Events)
  <2>1. events \in Seq(Events) /\ e1 \in Seq(Events) /\ e2 \in Seq(Events)
    BY <1>2, <1>3 DEF Tells
  <2>2. <<a>> \in Seq(Events)
    BY <1>1
  <2>3. B \in Seq(Events)
    <3>1. CASE felt
      BY <1>1, <3>1
    <3>2. CASE ~felt
      BY <3>2
    <3> QED
      BY <3>1, <3>2
  <2>4. C \in Seq(Events)
    <3>1. CASE ruled
      BY <1>1, <3>1
    <3>2. CASE ~ruled
      BY <3>2
    <3> QED
      BY <3>1, <3>2
  <2> QED
    BY <2>1, <2>2, <2>3, <2>4
<1>6. events \o <<a>> = e1
  BY <1>1, <1>5, AppendIsConcat DEF e1
<1>7. e1 \o B = e2
  <2>1. CASE felt
    BY <1>1, <1>5, <2>1, AppendIsConcat DEF e2
  <2>2. CASE ~felt
    BY <1>5, <2>2, ConcatEmptySeq DEF e2
  <2> QED
    BY <2>1, <2>2
<1>8. e2 \o C = e3
  <2>1. CASE ruled
    BY <1>1, <1>5, <2>1, AppendIsConcat
  <2>2. CASE ~ruled
    BY <1>5, <2>2, ConcatEmptySeq
  <2> QED
    BY <2>1, <2>2
<1> HIDE DEF B, C, e3
<1>9. events \o (<<a>> \o B \o C) = e3
  <2> DEFINE x == <<a>>
             y == x \o B
  <2>1. x \in Seq(Events) /\ events \o x = e1
    BY <1>5, <1>6
  <2> HIDE DEF x
  <2>0. /\ events \in Seq(Events) /\ x \in Seq(Events) /\ B \in Seq(Events)
        /\ C \in Seq(Events)
    BY <1>5, <2>1
  <2>2. y \in Seq(Events) /\ events \o y = e1 \o B
    <3>1. y \in Seq(Events)
      BY <2>0, ConcatProperties
    <3>2. (events \o x) \o B = events \o (x \o B)
      BY <2>0, ConcatAssociative
    <3> QED
      BY <2>1, <3>1, <3>2
  <2> HIDE DEF y
  <2>3. events \o (y \o C) = (events \o y) \o C
    <3>1. y \in Seq(Events)
      BY <2>2
    <3> QED
      BY <2>0, <3>1, ConcatAssociative
  <2> QED
    BY <1>7, <1>8, <2>2, <2>3 DEF x, y
<1> QED
  BY <1>4, <1>9 DEF B, C, r, m, a, b, c

ScriptsGiven == Scripts \subseteq Seq(Turned)

LEMMA StartKeepsDemo ==
  ASSUME DemoInv, ScriptsGiven, NEW d \in Demos, NEW s \in Scripts, Bench!Start(d, s)
  PROVE  DemoInv'
<1> DEFINE r == [stage |-> "playing", script |-> s, turn |-> 1]
           begin == <<<<"session_start">>>>
<1>1. /\ demo[d].stage = "unborn" /\ demo' = [demo EXCEPT ![d] = r]
      /\ emitted' = [emitted EXCEPT ![d] = emitted[d] \o begin]
      /\ policyDecisions' = policyDecisions /\ lastSentiment' = lastSentiment
  BY DEF Bench!Start, Bench!Emit
<1>2. emitted[d] = <<>> /\ policyDecisions[d] = <<>> /\ lastSentiment[d] = Bench!None
  BY <1>1 DEF DemoInv, OneDemoInv
<1>3. Tells(begin, 0, <<>>, Bench!None)
  BY TellsNothingYet
<1>4. emitted[d] \o begin = begin
  <2>1. begin \in Seq(Events)
    BY <1>3 DEF Tells
  <2> HIDE DEF begin
  <2>2. <<>> \o begin = begin
    BY <2>1, ConcatEmptySeq
  <2> QED
    BY <1>2, <2>2
<1>5. /\ policyDecisions' = [policyDecisions EXCEPT ![d] = <<>>]
      /\ lastSentiment' = [lastSentiment EXCEPT ![d] = Bench!None]
  BY <1>1, <1>2 DEF DemoInv
<1>6. /\ r \in [stage : {"unborn", "playing", "listed", "gone"},
                script : Scripts \union {<<>>}, turn : Nat]
      /\ r.stage = "playing" /\ r.script \in Scripts /\ r.turn - 1 = 0
      /\ r.turn \in 1..(Len(r.script) + 1)
  <2>1. Len(s) \in Nat
    BY LenProperties DEF ScriptsGiven
  <2>2. 1 \in 1..(Len(s) + 1)
    BY <2>1
  <2> QED
    BY <2>2
<1> HIDE DEF r, begin
<1>7. /\ r.stage = "unborn" => FALSE
      /\ r.stage = "playing" => /\ r.script \in Scripts /\ r.turn \in 1..(Len(r.script) + 1)
                                /\ Tells(begin, r.turn - 1, <<>>, Bench!None)
      /\ r.stage = "listed" => Listed(begin)
  BY <1>3, <1>6
<1>8. emitted' = [emitted EXCEPT ![d] = begin]
  BY <1>1, <1>4
<1> QED
  BY <1>1, <1>5, <1>6, <1>7, <1>8, OneDemoMoves

LEMMA TurnKeepsDemo ==
  ASSUME DemoInv, ScriptsGiven, NEW d \in Demos, Bench!PlayTurn(d)
  PROVE  DemoInv'
<1> DEFINE s == demo[d].script
           n == demo[d].turn
           t == s[n]
           felt == ~((IF t.speaker = "user" THEN t["mood"] ELSE Bench!None) = Bench!None)
           ruled == ~((IF t.speaker = "user" THEN t["decision"] ELSE Bench!None) = Bench!None)
           ev == <<<<"turn", t.speaker>>>>
                   \o (IF felt THEN <<<<"sentiment", t.mood>>>> ELSE <<>>)
                   \o (IF ruled THEN <<<<"policy", t.decision>>>> ELSE <<>>)
           r == [demo[d] EXCEPT !.turn = n + 1]
           mood == IF felt THEN t.mood ELSE lastSentiment[d]
           decided == IF ruled THEN Append(policyDecisions[d], t.decision) ELSE policyDecisions[d]
<1>1. /\ demo[d].stage = "playing" /\ n <= Len(s)
      /\ demo' = [demo EXCEPT ![d] = r]
      /\ lastSentiment' = [lastSentiment EXCEPT ![d] = mood]
      /\ policyDecisions' = [policyDecisions EXCEPT ![d] = decided]
  BY DEF Bench!PlayTurn, Bench!Playing
<1>2. emitted' = [emitted EXCEPT ![d] = emitted[d] \o ev]
  BY DEF Bench!PlayTurn, Bench!Emit
<1>3. /\ demo[d] \in [stage : {"unborn", "playing", "listed", "gone"},
                      script : Scripts \union {<<>>}, turn : Nat]
      /\ s \in Scripts /\ n \in 1..(Len(s) + 1)
      /\ Tells(emitted[d], n - 1, policyDecisions[d], lastSentiment[d])
  BY <1>1 DEF DemoInv, OneDemoInv, PlayingInv
<1>4. s \in Seq(Turned) /\ Len(s) \in Nat
  BY <1>3, LenProperties DEF ScriptsGiven
<1>5. n \in 1..Len(s) /\ n - 1 \in Nat /\ n - 1 + 1 = n /\ n + 1 \in 1..(Len(s) + 1)
      /\ n + 1 - 1 = n /\ n + 1 \in Nat
  BY <1>1, <1>3, <1>4
<1>6. t \in Turned
  BY <1>4, <1>5, ElementOfSeq
<1>7. /\ r \in [stage : {"unborn", "playing", "listed", "gone"},
                script : Scripts \union {<<>>}, turn : Nat]
      /\ r.stage = "playing" /\ r.script = s /\ r.turn = n + 1
  BY <1>1, <1>3, <1>5
<1>8. Tells(emitted[d] \o ev, n, decided, mood)
  <2> HIDE DEF t, s, n
  <2>1. felt \in BOOLEAN /\ ruled \in BOOLEAN
    OBVIOUS
  <2> HIDE DEF felt, ruled
  <2> QED
    BY <1>3, <1>5, <1>6, <2>1, TurnTells
<1> HIDE DEF r, ev, mood, decided, s, n
<1>9. /\ r.stage = "playing" => /\ r.script \in Scripts /\ r.turn \in 1..(Len(r.script) + 1)
                                /\ Tells(emitted[d] \o ev, r.turn - 1, decided, mood)
      /\ r.stage = "unborn" => FALSE
      /\ r.stage = "listed" => Listed(emitted[d] \o ev)
  BY <1>3, <1>5, <1>7, <1>8
<1> QED
  BY <1>1, <1>2, <1>7, <1>9, OneDemoMoves

LEMMA EndKeepsDemo ==
  ASSUME DemoInv, ScriptsGiven, NEW d \in Demos, Bench!EndPlayback(d)
  PROVE  DemoInv'
<1> DEFINE s == demo[d].script
           n == Len(s)
           said == [turns |-> n, mood |-> lastSentiment[d], decisions |-> policyDecisions[d],
                    escalated |-> "escalate" \in Range(policyDecisions[d])]
           events == emitted[d] \o <<<<"summary", said>>, <<"session_end">>>>
           r == [demo[d] EXCEPT !.stage = "listed"]
           decided == policyDecisions[d]
           mood == lastSentiment[d]
<1>1. /\ demo[d].stage = "playing" /\ demo[d].turn > n
      /\ demo' = [demo EXCEPT ![d] = r]
      /\ lastSentiment' = lastSentiment /\ policyDecisions' = policyDecisions
  BY DEF Bench!EndPlayback, Bench!Playing
<1>2. emitted' = [emitted EXCEPT ![d] = events]
  BY BenchSame DEF Bench!EndPlayback, Bench!Emit
<1>3. /\ demo[d] \in [stage : {"unborn", "playing", "listed", "gone"},
                      script : Scripts \union {<<>>}, turn : Nat]
      /\ s \in Scripts /\ demo[d].turn \in 1..(n + 1)
      /\ Tells(emitted[d], demo[d].turn - 1, policyDecisions[d], lastSentiment[d])
  BY <1>1 DEF DemoInv, OneDemoInv, PlayingInv
<1>4. n \in Nat
  BY <1>3, LenProperties DEF ScriptsGiven
<1>5. demo[d].turn - 1 = n
  <2> HIDE DEF n
  <2> QED
    BY <1>1, <1>3, <1>4
<1>6. /\ said.turns = n /\ said.decisions = policyDecisions[d] /\ said.mood = lastSentiment[d]
      /\ said.escalated <=> "escalate" \in Range(policyDecisions[d])
  OBVIOUS
<1>7. r \in [stage : {"unborn", "playing", "listed", "gone"},
             script : Scripts \union {<<>>}, turn : Nat] /\ r.stage = "listed"
  BY <1>3
<1> HIDE DEF n, said, r
<1>8. Listed(events)
  BY <1>3, <1>4, <1>5, <1>6, EndIsListed
<1>9. /\ policyDecisions' = [policyDecisions EXCEPT ![d] = decided]
      /\ lastSentiment' = [lastSentiment EXCEPT ![d] = mood]
  BY <1>1 DEF DemoInv
<1> HIDE DEF events
<1>10. /\ r.stage = "unborn" => FALSE
       /\ r.stage = "playing" =>
            /\ r.script \in Scripts /\ r.turn \in 1..(Len(r.script) + 1)
            /\ Tells(events, r.turn - 1, decided, mood)
       /\ r.stage = "listed" => Listed(events)
  BY <1>7, <1>8
<1> HIDE DEF decided, mood
<1> QED
  BY <1>1, <1>2, <1>7, <1>9, <1>10, OneDemoMoves

LEMMA DemoKeepsInv ==
  ASSUME DemoInv, ScriptsGiven, BenchStep
  PROVE  DemoInv'
<1>1. ASSUME NEW d \in Demos, Bench!DeleteDemo(d) PROVE DemoInv'
  <2> DEFINE r == [demo[d] EXCEPT !.stage = "gone"]
             events == emitted[d]
             decided == policyDecisions[d]
             mood == lastSentiment[d]
  <2>1. /\ demo' = [demo EXCEPT ![d] = r] /\ emitted' = emitted
        /\ policyDecisions' = policyDecisions /\ lastSentiment' = lastSentiment
    BY <1>1 DEF Bench!DeleteDemo
  <2>2. /\ emitted' = [emitted EXCEPT ![d] = events]
        /\ policyDecisions' = [policyDecisions EXCEPT ![d] = decided]
        /\ lastSentiment' = [lastSentiment EXCEPT ![d] = mood]
    BY <2>1 DEF DemoInv
  <2>3. r \in [stage : {"unborn", "playing", "listed", "gone"},
               script : Scripts \union {<<>>}, turn : Nat] /\ r.stage = "gone"
    BY DEF DemoInv
  <2> HIDE DEF r
  <2>4. /\ r.stage = "unborn" => FALSE
        /\ r.stage = "playing" =>
             /\ r.script \in Scripts /\ r.turn \in 1..(Len(r.script) + 1)
             /\ Tells(events, r.turn - 1, decided, mood)
        /\ r.stage = "listed" => Listed(events)
    BY <2>3
  <2> HIDE DEF events, decided, mood
  <2> QED
    BY <2>1, <2>2, <2>3, <2>4, OneDemoMoves
<1>2. CASE Bench!DemoNext
  BY <1>1, <1>2, StartKeepsDemo, TurnKeepsDemo, EndKeepsDemo DEF Bench!DemoNext
<1>3. CASE Bench!DatasetsNext \/ Bench!ScanNext \/ UNCHANGED benchVars
  <2>1. UNCHANGED <<demo, emitted, policyDecisions, lastSentiment>>
    BY <1>3 DEF Bench!DatasetsNext, Bench!ScanNext, benchVars
  <2> QED
    BY <2>1 DEF DemoInv, OneDemoInv, PlayingInv
<1> QED
  BY <1>2, <1>3 DEF BenchStep, Bench!Next

LEMMA DemosTellTheirEvents ==
  ASSUME DemoInv
  PROVE  Bench!DemoTellsItsEvents
BY DEF DemoInv, OneDemoInv, Listed, Bench!DemoTellsItsEvents

-----------------------------------------------------------------------------
(* The scan.                                                                  *)

ClaimsGiven ==
  \A c \in ScannedClaims :
    /\ c.importance \in Int
    /\ c.status \in {"supported", "contradicted", "missing", "unverified", "mixed",
                     "skipped", "loading"}

SpeaksTrue(s) ==
  /\ s.verified + s.contradicted + s.unverified = Cardinality(Bench!Qualifying(s.claims))
  /\ s.spoken \in {"supported", "all check out"} =>
       \A k \in Bench!Qualifying(s.claims) : s.claims[k].status = "supported"
  /\ s.spoken = "warning" => s.claims[s.worst].status = "contradicted"

ScanInv == \A s \in Range(scan) : SpeaksTrue(s)

ClaimsOf(claims, of, statuses) == {k \in of : claims[k].status \in statuses}

\* Each claim is one of the three.
LEMMA ThreeKinds ==
  ASSUME NEW claims, NEW F, IsFiniteSet(F), NEW Doubt,
         "supported" \notin Doubt, "contradicted" \notin Doubt,
         \A k \in F : claims[k].status \in {"supported", "contradicted"} \union Doubt
  PROVE  LET v == Cardinality(ClaimsOf(claims, F, {"supported"}))
             c == Cardinality(ClaimsOf(claims, F, {"contradicted"}))
             u == Cardinality(ClaimsOf(claims, F, Doubt))
         IN  /\ v \in Nat /\ c \in Nat /\ u \in Nat /\ v + c + u = Cardinality(F)
             /\ c = 0 /\ u = 0 => \A k \in F : claims[k].status = "supported"
             /\ c > 0 => ClaimsOf(claims, F, {"contradicted"}) # {}
<1> DEFINE V == ClaimsOf(claims, F, {"supported"})
           C == ClaimsOf(claims, F, {"contradicted"})
           U == ClaimsOf(claims, F, Doubt)
<1>1. V \subseteq F /\ C \subseteq F /\ U \subseteq F
  BY DEF ClaimsOf
<1>2. V \intersect C = {} /\ (V \union C) \intersect U = {} /\ (V \union C) \union U = F
  BY DEF ClaimsOf
<1>3. (\A k \in F : k \in C \/ k \in U \/ claims[k].status = "supported")
  BY DEF ClaimsOf
<1> HIDE DEF V, C, U
<1>4. IsFiniteSet(V) /\ IsFiniteSet(C) /\ IsFiniteSet(U)
  BY <1>1, FS_Subset
<1>5. /\ Cardinality(V) \in Nat /\ Cardinality(C) \in Nat /\ Cardinality(U) \in Nat
      /\ Cardinality({}) = 0
  BY <1>4, FS_CardinalityType, FS_EmptySet
<1>6. IsFiniteSet(V \union C) /\ Cardinality(V \union C) = Cardinality(V) + Cardinality(C)
  <2>1. IsFiniteSet(V \union C) /\ Cardinality(V \union C)
          = Cardinality(V) + Cardinality(C) - Cardinality(V \intersect C)
    BY <1>4, FS_Union
  <2>2. Cardinality(V \intersect C) = 0
    BY <1>2, <1>5
  <2> QED
    BY <1>5, <2>1, <2>2
<1>7. Cardinality(F) = Cardinality(V) + Cardinality(C) + Cardinality(U)
  <2>1. Cardinality((V \union C) \union U)
          = Cardinality(V \union C) + Cardinality(U) - Cardinality((V \union C) \intersect U)
    BY <1>4, <1>6, FS_Union
  <2>2. Cardinality((V \union C) \intersect U) = 0
    BY <1>2, <1>5
  <2>3. Cardinality((V \union C) \union U) = Cardinality(F)
    BY <1>2
  <2> QED
    BY <1>5, <1>6, <2>1, <2>2, <2>3
<1>8. (Cardinality(C) = 0 => C = {}) /\ (Cardinality(U) = 0 => U = {})
  BY <1>4, FS_EmptySet
<1>9. Cardinality(C) > 0 => C # {}
  BY <1>5
<1> QED
  BY <1>3, <1>5, <1>7, <1>8, <1>9 DEF V, C, U

LEMMA ScanKeepsInv ==
  ASSUME ScanInv, ClaimsGiven, BenchStep
  PROVE  ScanInv'
<1>1. ASSUME NEW n \in 0..3, NEW claims \in [1..n -> ScannedClaims], Bench!Scan(claims)
      PROVE  ScanInv'
  <2> DEFINE F == Bench!Qualifying(claims)
             D == Bench!Doubtful
             v == Cardinality(ClaimsOf(claims, F, {"supported"}))
             c == Cardinality(ClaimsOf(claims, F, {"contradicted"}))
             u == Cardinality(ClaimsOf(claims, F, D))
             N == Cardinality(F)
             worst == Bench!PickHighestRiskClaim(claims, F)
             spoken == Bench!FormatSpoken(N, v, c, u)
             s == [claims |-> claims, verified |-> v, contradicted |-> c, unverified |-> u,
                   worst |-> worst, spoken |-> spoken]
  <2>1. scan' = IF F = {} THEN <<>> ELSE <<s>>
    BY <1>1, BenchSame DEF Bench!Scan, ClaimsOf
  <2>2. F \subseteq 1..n
    BY DEF Bench!Qualifying
  <2>3. IsFiniteSet(F) /\ F \subseteq Nat
    <3>1. IsFiniteSet(1..n)
      BY FS_Interval
    <3> QED
      BY <2>2, <3>1, FS_Subset
  <2>4. \A k \in F : /\ claims[k].importance \in Int
                     /\ claims[k].status \in {"supported", "contradicted"} \union D
    BY <2>2 DEF ClaimsGiven, Bench!Doubtful
  <2>5. "supported" \notin D /\ "contradicted" \notin D
    BY DEF Bench!Doubtful
  <2> HIDE DEF F, D
  <2>6. /\ v \in Nat /\ c \in Nat /\ u \in Nat /\ v + c + u = N
        /\ c = 0 /\ u = 0 => \A k \in F : claims[k].status = "supported"
        /\ c > 0 => ClaimsOf(claims, F, {"contradicted"}) # {}
    BY <2>3, <2>4, <2>5, ThreeKinds
  <2>7. ASSUME c > 0 PROVE claims[worst].status = "contradicted"
    <3> DEFINE W == ClaimsOf(claims, F, {"contradicted"})
               first(k) == \A j \in W \ {k} :
                 \/ claims[j].importance < claims[k].importance
                 \/ claims[j].importance = claims[k].importance /\ k < j
               sc == [k \in F |-> claims[k].importance]
    <3>1. W # {} /\ W \subseteq F
      BY <2>6, <2>7 DEF ClaimsOf
    <3>2. worst = CHOOSE k \in W : first(k)
      BY <3>1 DEF Bench!PickHighestRiskClaim, ClaimsOf
    <3>3. \A k \in W : claims[k].status = "contradicted"
      BY DEF ClaimsOf
    <3> HIDE DEF W
    <3>4. IsFiniteSet(W) /\ W \subseteq Nat
      BY <2>3, <3>1, FS_Subset
    <3>5. \A k \in W : sc[k] = claims[k].importance /\ sc[k] \in Int
      BY <2>4, <3>1
    <3> HIDE DEF sc
    <3>6. \E k \in W : FirstOfMost(k, W, sc)
      BY <3>1, <3>4, <3>5, SomeIsFirstOfMost
    <3>7. \E k \in W : first(k)
      BY <3>5, <3>6 DEF FirstOfMost
    <3> HIDE DEF first, worst
    <3>8. worst \in W
      BY <3>2, <3>7
    <3> QED
      BY <3>3, <3>8
  <2>8. /\ spoken = "warning" => c > 0
        /\ F # {} /\ spoken \in {"supported", "all check out"} => c = 0 /\ u = 0
    <3>1. F # {} => N > 0
      <4>1. N \in Nat /\ (N = 0 => F = {})
        BY <2>3, FS_EmptySet, FS_CardinalityType
      <4> QED
        BY <4>1
    <3> HIDE DEF v, c, u, N
    <3> QED
      BY <2>6, <3>1 DEF Bench!FormatSpoken
  <2> HIDE DEF v, c, u, N, worst, spoken
  <2>9. ASSUME F # {} PROVE SpeaksTrue(s)
    BY <2>6, <2>7, <2>8, <2>9 DEF SpeaksTrue, F, N
  <2>10. scan' = <<>> \/ (scan' = <<s>> /\ SpeaksTrue(s))
    BY <2>1, <2>9
  <2> HIDE DEF s
  <2>11. ASSUME NEW x \in Range(scan') PROVE scan' = <<s>> /\ x = s
    BY <2>10, <2>11 DEF Range
  <2> QED
    BY <2>10, <2>11 DEF ScanInv
<1>2. CASE Bench!ScanNext
  BY <1>1, <1>2 DEF Bench!ScanNext
<1>3. CASE Bench!DatasetsNext \/ Bench!DemoNext \/ UNCHANGED benchVars
  <2>1. UNCHANGED scan
    BY <1>3 DEF Bench!DatasetsNext, Bench!DemoNext, benchVars
  <2> QED
    BY <2>1 DEF ScanInv
<1> QED
  BY <1>2, <1>3 DEF BenchStep, Bench!Next

LEMMA ScansSpeakTrue ==
  ASSUME ScanInv
  PROVE  Bench!ScanSpeaksTrue
BY BenchSame DEF ScanInv, SpeaksTrue, Bench!ScanSpeaksTrue

-----------------------------------------------------------------------------
BenchInv == NotedInv /\ DatasetsInv /\ DemoInv /\ ScanInv

LEMMA BenchBegins ==
  ASSUME Bench!Init
  PROVE  BenchInv
<1>1. NotedInv
  <2>1. annotations = <<>> /\ benchMade = 0 /\ <<>> \in Seq(Noted) /\ DOMAIN <<>> = {}
    BY DEF Bench!Init
  <2> QED
    BY <2>1 DEF NotedInv
<1>2. DatasetsInv
  <2>1. datasets = <<>> /\ <<>> \in Seq(Dataset) /\ DOMAIN <<>> = {}
    BY DEF Bench!Init
  <2> QED
    BY <2>1 DEF DatasetsInv
<1>3. DemoInv
  <2>1. /\ demo = [d \in Demos |-> [stage |-> "unborn", script |-> <<>>, turn |-> 1]]
        /\ emitted = [d \in Demos |-> <<>>] /\ policyDecisions = [d \in Demos |-> <<>>]
        /\ lastSentiment = [d \in Demos |-> Bench!None]
    BY DEF Bench!Init
  <2>2. \A d \in Demos : OneDemoInv(d)
    BY <2>1 DEF OneDemoInv
  <2>3. demo \in [Demos -> [stage : {"unborn", "playing", "listed", "gone"},
                            script : Scripts \union {<<>>}, turn : Nat]]
    BY <2>1
  <2> QED
    BY <2>1, <2>2, <2>3 DEF DemoInv
<1>4. ScanInv
  <2>1. scan = <<>> /\ Range(<<>>) = {}
    BY DEF Bench!Init, Range
  <2> QED
    BY <2>1 DEF ScanInv
<1> QED
  BY <1>1, <1>2, <1>3, <1>4 DEF BenchInv

LEMMA BenchKeepsInv ==
  ASSUME BenchIsGiven, BenchInv, BenchStep
  PROVE  BenchInv'
<1>1. ScriptsGiven /\ ClaimsGiven /\ \A t \in Spoken : t.turn \in Int
  BY DEF BenchIsGiven, ScriptsGiven, ClaimsGiven, Turned
<1> QED
  BY <1>1, NotedKeepsInv, DatasetsKeepInv, DemoKeepsInv, ScanKeepsInv DEF BenchInv

LEMMA BenchIsSound ==
  ASSUME BenchInv
  PROVE  Bench!WorkbenchSound
BY DatasetsStayKept, DemosTellTheirEvents, ScansSpeakTrue DEF BenchInv, Bench!WorkbenchSound

-----------------------------------------------------------------------------
(* All of the records.                                                        *)

RecordsInv == TapeInv /\ MemoryInv /\ ReportInv /\ BenchInv

\* The invariant holds when the server starts.
LEMMA RecordsBegin == RecordsInit => RecordsInv
BY RecordsAssumption, TapeBegins, MemoryBegins, ReportBegins, BenchBegins
DEF RecordsInit, RecordsInv

\* Every step keeps it, and one that changes no variable too.
LEMMA RecordsKeepInv == RecordsInv /\ [RecordsNext]_recordsVars => RecordsInv'
<1> SUFFICES ASSUME RecordsInv, [RecordsNext]_recordsVars PROVE RecordsInv'
  OBVIOUS
<1>1. TapeStep /\ MemoryStep /\ ReportStep /\ BenchStep
  BY DEF RecordsNext, recordsVars, TapeStep, MemoryStep, ReportStep, BenchStep
<1>2. TapeInv'
  BY <1>1, TapeKeepsInv DEF RecordsInv
<1>3. MemoryInv'
  BY <1>1, RecordsAssumption, MemoryKeepsInv DEF RecordsInv
<1>4. ReportInv'
  BY <1>1, RecordsAssumption, ReportKeepsInv DEF RecordsInv
<1>5. BenchInv'
  BY <1>1, RecordsAssumption, BenchKeepsInv DEF RecordsInv
<1> QED
  BY <1>2, <1>3, <1>4, <1>5 DEF RecordsInv

\* What the four modules promise follows from it.
LEMMA RecordsFollow == RecordsInv => RecordsHold
BY RecordsAssumption, RecordingsAreSound, MemoriesAreSound, ReportsAreSound, BenchIsSound
DEF RecordsInv, RecordsHold

\* What is told of a call later agrees with what was kept of it, for any calls, sessions,
\* users, turns, scripts and claims: the recordings and their exports with what the call
\* said, the memories with their user, two reports of the same recordings with each other,
\* the datasets, the demo and the scan with what they were made from.
THEOREM RecordsAlwaysHold == RecordsSpec => []RecordsHold
<1>1. RecordsInit => RecordsInv
  BY RecordsBegin
<1>2. RecordsInv /\ [RecordsNext]_recordsVars => RecordsInv'
  BY RecordsKeepInv
<1>3. RecordsInv => RecordsHold
  BY RecordsFollow
<1> QED
  BY <1>1, <1>2, <1>3, PTL DEF RecordsSpec
=============================================================================
