---------------------------- MODULE FiniteOrders ----------------------------
(***************************************************************************)
(* Facts about strict orders on finite sets, for the proofs about the      *)
(* frontier, the order of scenes and the order of days.                    *)
(***************************************************************************)
EXTENDS FiniteSetTheorems, TLAPS

\* A relation no element of S has to itself, and that is transitive on S.
StrictOn(R, S) ==
    /\ \A x \in S : <<x, x>> \notin R
    /\ \A x, y, z \in S : <<x, y>> \in R /\ <<y, z>> \in R => <<x, z>> \in R

Below(x, R, S) == {y \in S : <<y, x>> \in R}

\* What is below x has less below it than x.
LEMMA BelowShrinks ==
    ASSUME NEW R, NEW S, StrictOn(R, S), NEW x \in S, NEW y \in Below(x, R, S)
    PROVE  Below(y, R, S) \subseteq Below(x, R, S) /\ Below(y, R, S) # Below(x, R, S)
<1>1. Below(y, R, S) \subseteq Below(x, R, S)
    BY DEF StrictOn, Below
<1>2. y \notin Below(y, R, S)
    BY DEF StrictOn, Below
<1> QED
    BY <1>1, <1>2

\* A finite set has a least element in every strict order.
THEOREM FiniteMinimal ==
    ASSUME NEW R, NEW S, IsFiniteSet(S), S # {}, StrictOn(R, S)
    PROVE  \E x \in S : \A y \in S : <<y, x>> \notin R
<1> DEFINE Downs == {Below(x, R, S) : x \in S}
<1>1. /\ Downs # {} /\ Downs \subseteq SUBSET S
    BY DEF Below
<1>2. IsWellFoundedOn(StrictSubsetOrdering(S), SUBSET S)
    BY FS_StrictSubsetOrderingWellFounded, FS_FiniteSubsetsOfFinite
<1> HIDE DEF Downs
<1>3. PICK D \in Downs : \A E \in Downs : <<E, D>> \notin StrictSubsetOrdering(S)
    BY <1>1, <1>2, WFMin
<1>4. PICK x \in S : D = Below(x, R, S)
    BY <1>3 DEF Downs
<1>5. ASSUME NEW y \in S, <<y, x>> \in R PROVE FALSE
  <2>1. y \in Below(x, R, S)
    BY <1>5 DEF Below
  <2>2. Below(y, R, S) \in Downs
    BY DEF Downs
  <2>3. <<Below(y, R, S), D>> \in StrictSubsetOrdering(S)
    BY <1>1, <1>3, <1>4, <2>1, <2>2, BelowShrinks DEF StrictSubsetOrdering
  <2> QED
    BY <1>3, <2>2, <2>3
<1> QED
    BY <1>5

\* A set of natural numbers has a least one.
THEOREM LeastNatural ==
    ASSUME NEW T, T \subseteq Nat, T # {}
    PROVE  \E n \in T : \A m \in T : n <= m
<1>1. PICK top \in Nat : top \in T
    OBVIOUS
<1> DEFINE S == {m \in T : m <= top}
           R == {p \in S \X S : p[1] < p[2]}
<1>2. S \subseteq Nat /\ top \in S
  <2>1. top <= top
    OBVIOUS
  <2> QED
    BY <1>1, <2>1
<1>3. IsFiniteSet(S)
    BY <1>1, <1>2, FS_BoundedSetOfNaturals
<1>4. StrictOn(R, S)
    BY <1>2 DEF StrictOn
<1> HIDE DEF S
<1>5. PICK n \in S : \A m \in S : <<m, n>> \notin R
    BY <1>2, <1>3, <1>4, FiniteMinimal
<1>6. ASSUME NEW m \in S PROVE n <= m
  <2>1. m \in Nat /\ n \in Nat /\ ~(m < n)
    BY <1>2, <1>5
  <2> QED
    BY <2>1
<1>7. S = {m \in T : m <= top}
    BY DEF S
<1> QED
    BY <1>1, <1>6, <1>7

\* What holds of 0 and passes on from each number to the next holds up to n.
THEOREM Upward ==
    ASSUME NEW n \in Nat, NEW T, 0 \in T, \A k \in 1 .. n : k - 1 \in T => k \in T
    PROVE  \A k \in 0 .. n : k \in T
<1> DEFINE Missed == {k \in 0 .. n : k \notin T}
<1>1. SUFFICES ASSUME Missed # {} PROVE FALSE
    OBVIOUS
<1>2. PICK k \in Missed : \A j \in Missed : k <= j
  <2>1. Missed \subseteq Nat
    OBVIOUS
  <2> HIDE DEF Missed
  <2> QED
    BY <1>1, <2>1, LeastNatural
<1>3. k \in 1 .. n /\ k - 1 \in 0 .. n
    BY <1>2
<1>4. k - 1 \in T
    BY <1>2, <1>3
<1> QED
    BY <1>2, <1>3, <1>4

\* A set of integers with a lower bound has a least one.
THEOREM LeastInteger ==
    ASSUME NEW T, T \subseteq Int, T # {}, NEW low \in Int, \A m \in T : low <= m
    PROVE  \E n \in T : \A m \in T : n <= m
<1> DEFINE S == {m - low : m \in T}
<1>1. S \subseteq Nat /\ S # {}
  <2>1. \A m \in T : m \in Int /\ low <= m
    OBVIOUS
  <2>2. \A m \in T : m - low \in Nat
    BY <2>1
  <2> QED
    BY <2>2
<1>2. PICK k \in S : \A j \in S : k <= j
    BY <1>1, LeastNatural
<1>3. PICK n \in T : k = n - low
    BY <1>2
<1>4. ASSUME NEW m \in T PROVE n <= m
  <2>1. n - low <= m - low /\ m \in Int /\ n \in Int
    BY <1>2, <1>3
  <2> QED
    BY <2>1
<1> QED
    BY <1>4

\* In a finite set, what is above something is above something with nothing
\* below it.
THEOREM FiniteCovered ==
    ASSUME NEW R, NEW S, IsFiniteSet(S), StrictOn(R, S), NEW x \in S, Below(x, R, S) # {}
    PROVE  \E y \in Below(x, R, S) : Below(y, R, S) = {}
<1>1. Below(x, R, S) \in SUBSET S
    BY DEF Below
<1>2. IsFiniteSet(Below(x, R, S))
    BY <1>1, FS_Subset
<1>3. StrictOn(R, Below(x, R, S))
    BY <1>1 DEF StrictOn
<1>4. PICK y \in Below(x, R, S) : \A z \in Below(x, R, S) : <<z, y>> \notin R
    BY <1>2, <1>3, FiniteMinimal
<1>5. Below(y, R, S) \subseteq Below(x, R, S)
    BY BelowShrinks
<1> QED
    BY <1>4, <1>5 DEF Below

\* What has different values has as many values.
LEMMA ImageCounts ==
    ASSUME NEW S, IsFiniteSet(S), NEW f, \A a, b \in S : f[a] = f[b] => a = b
    PROVE  IsFiniteSet({f[a] : a \in S}) /\ Cardinality({f[a] : a \in S}) = Cardinality(S)
<1> DEFINE T == {f[a] : a \in S}
           g == [a \in S |-> f[a]]
<1>1. g \in [S -> T] /\ (\A a, b \in S : g[a] = g[b] => a = b) /\ \A t \in T : \E a \in S : g[a] = t
    OBVIOUS
<1> HIDE DEF g, T
<1>2. g \in Injection(S, T) /\ g \in Surjection(S, T)
    BY <1>1 DEF Injection, Surjection, IsInjective
<1>3. ExistsBijection(S, T)
    BY <1>2 DEF ExistsBijection, Bijection
<1>4. IsFiniteSet(T) /\ Cardinality(T) = Cardinality(S)
    BY <1>3, FS_Bijection
<1> QED
    BY <1>4 DEF T

LEMMA ImageFinite ==
    ASSUME NEW S, IsFiniteSet(S), NEW f
    PROVE  IsFiniteSet({f[a] : a \in S})
<1> DEFINE T == {f[a] : a \in S}
           g == [a \in S |-> f[a]]
<1>1. g \in [S -> T] /\ \A t \in T : \E a \in S : g[a] = t
    OBVIOUS
<1> HIDE DEF g, T
<1>2. g \in Surjection(S, T)
    BY <1>1 DEF Surjection
<1>3. IsFiniteSet(T)
    BY <1>2, FS_Surjection
<1> QED
    BY <1>3 DEF T

\* Whoever is lower has less below it.
LEMMA RankGrows ==
    ASSUME NEW R, NEW S, IsFiniteSet(S), StrictOn(R, S)
    PROVE  /\ \A x \in S : Cardinality(Below(x, R, S)) \in 0 .. Cardinality(S) - 1
           /\ \A x, y \in S : <<x, y>> \in R =>
                 Cardinality(Below(x, R, S)) < Cardinality(Below(y, R, S))
<1> DEFINE n == Cardinality(S)
           rank(x) == Cardinality(Below(x, R, S))
<1>1. n \in Nat
    BY FS_CardinalityType
<1>2. ASSUME NEW x \in S
      PROVE  IsFiniteSet(Below(x, R, S)) /\ rank(x) \in Nat /\ rank(x) < n
  <2>1. Below(x, R, S) \in SUBSET S /\ Below(x, R, S) # S
    BY DEF Below, StrictOn
  <2>2. IsFiniteSet(Below(x, R, S)) /\ Cardinality(Below(x, R, S)) <= n /\ Cardinality(Below(x, R, S)) # n
    BY <2>1, FS_Subset
  <2>3. Cardinality(Below(x, R, S)) \in Nat
    BY <2>2, FS_CardinalityType
  <2> QED
    BY <1>1, <2>2, <2>3
<1>3. ASSUME NEW x \in S, NEW y \in S, <<x, y>> \in R PROVE rank(x) < rank(y)
  <2>1. x \in Below(y, R, S)
    BY <1>3 DEF Below
  <2>2. Below(x, R, S) \in SUBSET Below(y, R, S) /\ Below(x, R, S) # Below(y, R, S)
    BY <2>1, BelowShrinks
  <2>3. rank(x) <= rank(y) /\ rank(x) # rank(y)
    BY <1>2, <2>2, FS_Subset
  <2> QED
    BY <1>2, <2>3
<1>4. \A x \in S : rank(x) \in 0 .. n - 1
    BY <1>1, <1>2
<1> QED
    BY <1>3, <1>4

TotalOn(R, S) == \A x, y \in S : x = y \/ <<x, y>> \in R \/ <<y, x>> \in R

\* In a strict total order of n elements there is one with k - 1 below it, for
\* every k up to n.
THEOREM FiniteRanks ==
    ASSUME NEW R, NEW S, IsFiniteSet(S), StrictOn(R, S), TotalOn(R, S)
    PROVE  \A k \in 1 .. Cardinality(S) : \E x \in S : Cardinality(Below(x, R, S)) = k - 1
<1> DEFINE n == Cardinality(S)
           rank == [x \in S |-> Cardinality(Below(x, R, S))]
<1>1. n \in Nat
    BY FS_CardinalityType
<1>2. \A x \in S : rank[x] \in 0 .. n - 1
    BY RankGrows
<1>3. \A x, y \in S : <<x, y>> \in R => rank[x] < rank[y]
    BY RankGrows
<1>4. rank \in [S -> 0 .. n - 1]
    BY <1>2
<1> HIDE DEF rank
<1>5. ASSUME NEW x \in S, NEW y \in S, rank[x] = rank[y] PROVE x = y
  <2>1. rank[x] \in Nat /\ rank[y] \in Nat
    BY <1>1, <1>2
  <2>2. ~(rank[x] < rank[y]) /\ ~(rank[y] < rank[x])
    BY <1>5, <2>1
  <2>3. <<x, y>> \notin R /\ <<y, x>> \notin R
    BY <1>3, <2>2
  <2> QED
    BY <2>3 DEF TotalOn
<1>6. rank \in Injection(S, 0 .. n - 1)
    BY <1>4, <1>5 DEF Injection, IsInjective
<1>7. IsFiniteSet(0 .. n - 1) /\ Cardinality(0 .. n - 1) = n
    BY <1>1, FS_Interval, SMTT(20)
<1>8. rank \in Surjection(S, 0 .. n - 1)
    BY <1>6, <1>7, FS_Injection
<1>9. ASSUME NEW k \in 1 .. n PROVE \E x \in S : rank[x] = k - 1
  <2>1. k - 1 \in 0 .. n - 1
    BY <1>1
  <2> QED
    BY <1>8, <2>1 DEF Surjection
<1> QED
    BY <1>9 DEF rank

\* Taking the one with nothing below it, then the one with one below it, and so
\* on, lists a strict total order in order.
THEOREM FiniteListing ==
    ASSUME NEW R, NEW S, IsFiniteSet(S), StrictOn(R, S), TotalOn(R, S),
           NEW q, \A i \in 1 .. Cardinality(S) :
                      q[i] = CHOOSE x \in S : Cardinality(Below(x, R, S)) = i - 1
    PROVE  /\ \A i \in 1 .. Cardinality(S) : q[i] \in S
           /\ \A i, j \in 1 .. Cardinality(S) : i < j => <<q[i], q[j]>> \in R
           /\ \A x \in S : \E i \in 1 .. Cardinality(S) : q[i] = x
<1> DEFINE n == Cardinality(S)
           rank(x) == Cardinality(Below(x, R, S))
<1>1. n \in Nat
    BY FS_CardinalityType
<1>2. /\ \A x \in S : rank(x) \in 0 .. n - 1
      /\ \A x, y \in S : <<x, y>> \in R => rank(x) < rank(y)
    BY RankGrows
<1>3. \A i \in 1 .. n : \E x \in S : rank(x) = i - 1
    BY FiniteRanks
<1> HIDE DEF n, rank
<1>4. \A i \in 1 .. n : q[i] = CHOOSE x \in S : rank(x) = i - 1
    BY DEF n, rank
<1>5. \A i \in 1 .. n : q[i] \in S /\ rank(q[i]) = i - 1
    BY <1>3, <1>4
<1>6. ASSUME NEW x \in S, NEW y \in S, rank(x) = rank(y) PROVE x = y
  <2>1. rank(x) \in Int /\ rank(y) \in Int
    BY <1>1, <1>2
  <2>2. <<x, y>> \notin R /\ <<y, x>> \notin R
    BY <1>2, <1>6, <2>1
  <2> QED
    BY <2>2 DEF TotalOn
<1>7. ASSUME NEW i \in 1 .. n, NEW j \in 1 .. n, i < j PROVE <<q[i], q[j]>> \in R
  <2>1. q[i] # q[j]
    BY <1>1, <1>5, <1>7
  <2>2. <<q[j], q[i]>> \notin R
    BY <1>1, <1>2, <1>5, <1>7
  <2> QED
    BY <1>5, <2>1, <2>2 DEF TotalOn
<1>8. ASSUME NEW x \in S PROVE \E i \in 1 .. n : q[i] = x
  <2>1. rank(x) + 1 \in 1 .. n /\ (rank(x) + 1) - 1 = rank(x)
    BY <1>1, <1>2
  <2> QED
    BY <1>5, <1>6, <2>1
<1> QED
    BY <1>5, <1>7, <1>8 DEF n

\* f puts the elements of T in an order that respects R.
Orders(f, T, R) ==
    /\ f \in [T -> 1 .. Cardinality(T)]
    /\ \A x, y \in T : <<y, x>> \in R => f[y] < f[x]

\* A finite set none of whose parts waits for itself can be put in order.
THEOREM FiniteSchedule ==
    ASSUME NEW R, NEW S, IsFiniteSet(S),
           \A T \in SUBSET S : T # {} => \E x \in T : \A y \in T : <<y, x>> \notin R
    PROVE  \E f : Orders(f, S, R)
<1> DEFINE Stuck(T) == T \in SUBSET S /\ ~\E f : Orders(f, T, R)
           Sizes    == {n \in Nat : \E T : Stuck(T) /\ Cardinality(T) = n}
<1>1. SUFFICES ASSUME ~\E f : Orders(f, S, R) PROVE FALSE
    OBVIOUS
<1>2. Cardinality(S) \in Sizes
  <2>1. Cardinality(S) \in Nat
    BY FS_CardinalityType
  <2> QED
    BY <1>1, <2>1
<1>3. PICK n \in Sizes : \A m \in Sizes : n <= m
    BY <1>2, LeastNatural
<1>4. PICK T : Stuck(T) /\ Cardinality(T) = n
    BY <1>3
<1>5. IsFiniteSet(T) /\ T \in SUBSET S /\ n \in Nat
    BY <1>3, <1>4, FS_Subset
<1>6. T # {}
  <2>1. ASSUME T = {} PROVE FALSE
    <3> DEFINE f == [x \in {} |-> 1]
    <3>1. Orders(f, T, R)
      BY <2>1 DEF Orders
    <3> QED
      BY <1>4, <3>1
  <2> QED
    BY <2>1
<1>7. PICK x \in T : \A y \in T : <<y, x>> \notin R
    BY <1>5, <1>6
<1> DEFINE U == T \ {x}
<1>8. Cardinality(U) = n - 1 /\ n - 1 \in Nat
  <2>1. IsFiniteSet(U) /\ Cardinality(U) = n - 1
    BY <1>4, <1>5, FS_RemoveElement
  <2>2. Cardinality(U) \in Nat
    BY <2>1, FS_CardinalityType
  <2> QED
    BY <2>1, <2>2
<1>9. ~Stuck(U)
  <2>1. n - 1 \notin Sizes
    BY <1>3, <1>5
  <2> QED
    BY <1>8, <2>1
<1>10. PICK f : Orders(f, U, R)
    BY <1>5, <1>9
<1> DEFINE g == [z \in T |-> IF z = x THEN 1 ELSE f[z] + 1]
<1>11. \A z \in U : f[z] \in 1 .. n - 1
    BY <1>8, <1>10 DEF Orders
<1>12. g \in [T -> 1 .. n]
  <2>1. ASSUME NEW z \in T PROVE (IF z = x THEN 1 ELSE f[z] + 1) \in 1 .. n
    <3>1. CASE z = x
      BY <1>8, <3>1
    <3>2. CASE z # x
      BY <1>5, <1>11, <3>2
    <3> QED
      BY <3>1, <3>2
  <2> QED
    BY <2>1
<1>13. ASSUME NEW z \in T, NEW y \in T, <<y, z>> \in R PROVE g[y] < g[z]
  <2>1. z # x
    BY <1>7, <1>13
  <2>2. z \in U /\ f[z] \in 1 .. n - 1 /\ g[z] = f[z] + 1
    BY <1>11, <2>1
  <2>3. CASE y = x
    BY <1>5, <2>2, <2>3
  <2>4. CASE y # x
    <3>1. y \in U /\ f[y] \in 1 .. n - 1 /\ g[y] = f[y] + 1
      BY <1>11, <2>4
    <3>2. f[y] < f[z]
      BY <1>10, <1>13, <2>2, <3>1 DEF Orders
    <3> QED
      BY <1>5, <2>2, <3>1, <3>2
  <2> QED
    BY <2>3, <2>4
<1> HIDE DEF g
<1>14. Orders(g, T, R)
    BY <1>4, <1>12, <1>13 DEF Orders
<1> QED
    BY <1>4, <1>14
=============================================================================
