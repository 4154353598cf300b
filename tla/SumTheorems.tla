----------------------------- MODULE SumTheorems -----------------------------
(***************************************************************************)
(* Sums over finite sets: what SumFunctionOnSet and SumFunction of the     *)
(* module Functions compute, whatever the order in which the fold takes    *)
(* the elements, and what becomes of a sum when its set is cut, renamed or *)
(* counted.  sum() and GROUP BY of the queries are modelled with them.     *)
(*                                                                         *)
(* Induction is argued by the least number for which a claim would fail.   *)
(***************************************************************************)
EXTENDS Functions, FiniteSetTheorems, TLAPS

LEMMA LeastNumber ==
  ASSUME NEW S \in SUBSET Nat, S # {}
  PROVE  \E m \in S : \A k \in Nat : k < m => k \notin S
  <1>1. PICK m \in S : \A k \in S : ~ <<k, m>> \in OpToRel(<, Nat)
    BY NatLessThanWellFounded, WFMin
  <1>2. \A k \in Nat : k < m => <<k, m>> \in OpToRel(<, Nat)
    BY DEF OpToRel
  <1> QED BY <1>1, <1>2

\* A set of finite sets that is not empty has a member than which none is smaller.
LEMMA SmallestSet ==
  ASSUME NEW F, F # {}, \A s \in F : IsFiniteSet(s)
  PROVE  \E s \in F : \A t \in F : Cardinality(s) <= Cardinality(t)
  <1> DEFINE sizes == {Cardinality(s) : s \in F}
  <1>1. sizes \in SUBSET Nat /\ sizes # {}
    BY FS_CardinalityType
  <1>2. PICK m \in sizes : \A k \in Nat : k < m => k \notin sizes
    BY <1>1, LeastNumber
  <1>3. PICK s \in F : m = Cardinality(s)
    BY <1>2
  <1>4. ASSUME NEW t \in F PROVE Cardinality(s) <= Cardinality(t)
    <2>1. Cardinality(t) \in sizes /\ Cardinality(t) \in Nat /\ m \in Nat
      BY <1>1
    <2> QED BY <1>2, <1>3, <2>1
  <1> QED BY <1>4

----------------------------------------------------------------------------
(***************************************************************************)
(* The fold                                                                *)
(***************************************************************************)
Pick(s) == CHOOSE x \in s : TRUE
Without(s) == s \ {Pick(s)}
IsFold(f, g, S) == g = [s \in SUBSET S |-> IF s = {} THEN 0 ELSE f[Pick(s)] + g[Without(s)]]

LEMMA OneLess ==
  ASSUME NEW s, IsFiniteSet(s), s # {}
  PROVE  /\ Pick(s) \in s /\ Without(s) \subseteq s /\ IsFiniteSet(Without(s))
         /\ Cardinality(s) \in Nat /\ Cardinality(Without(s)) \in Nat
         /\ Cardinality(Without(s)) = Cardinality(s) - 1
  <1>1. Pick(s) \in s
    BY DEF Pick
  <1> QED BY <1>1, FS_RemoveElement, FS_CardinalityType DEF Without

\* There is a fold of every finite set.
LEMMA FoldExists ==
  ASSUME NEW f, NEW S, IsFiniteSet(S)
  PROVE  \E g : IsFold(f, g, S)
  <1> DEFINE Level(n) == {s \in SUBSET S : Cardinality(s) <= n}
             Partial(g, n) ==
               g = [s \in Level(n) |-> IF s = {} THEN 0 ELSE f[Pick(s)] + g[Without(s)]]
             Bad == {n \in Nat : ~ \E g : Partial(g, n)}
  <1>1. \A s \in SUBSET S : IsFiniteSet(s) /\ Cardinality(s) \in Nat
    BY FS_Subset, FS_CardinalityType
  <1>2. ASSUME Bad # {} PROVE FALSE
    <2>1. PICK n \in Bad : \A k \in Nat : k < n => k \notin Bad
      BY <1>2, LeastNumber
    <2>2. CASE n = 0
      <3>1. \A s \in Level(0) : s = {}
        BY <1>1, FS_EmptySet
      <3>2. Partial([s \in Level(0) |-> 0], 0)
        BY <3>1
      <3> QED BY <2>1, <2>2, <3>2
    <2>3. CASE n # 0
      <3>1. n - 1 \in Nat /\ n - 1 < n /\ n \in Nat
        BY <2>1, <2>3
      <3>2. PICK g : Partial(g, n - 1)
        BY <2>1, <3>1
      <3> DEFINE value(h, s) == IF s = {} THEN 0 ELSE f[Pick(s)] + h[Without(s)]
                 h == [s \in Level(n) |-> value(g, s)]
      <3>3. \A s \in Level(n - 1) : g[s] = value(g, s) /\ s \in Level(n)
        BY <1>1, <3>1, <3>2
      <3>4. \A s \in Level(n) : s # {} => Without(s) \in Level(n - 1)
        BY <1>1, <3>1, OneLess
      <3>5. ASSUME NEW s \in Level(n) PROVE value(g, s) = value(h, s)
        <4>1. CASE s = {}
          BY <4>1
        <4>2. CASE s # {}
          <5>1. Without(s) \in Level(n - 1)
            BY <3>4, <4>2
          <5>2. h[Without(s)] = g[Without(s)]
            BY <3>3, <5>1
          <5> QED BY <4>2, <5>2
        <4> QED BY <4>1, <4>2
      <3>6. Partial(h, n)
        BY <3>5
      <3> QED BY <2>1, <3>6
    <2> QED BY <2>2, <2>3
  <1>3. Cardinality(S) \in Nat /\ Cardinality(S) \notin Bad
    BY <1>1, <1>2
  <1>4. PICK g : Partial(g, Cardinality(S))
    BY <1>3
  <1>5. Level(Cardinality(S)) = SUBSET S
    BY FS_Subset
  <1> QED BY <1>4, <1>5 DEF IsFold

\* A fold of a set folds its subsets as folds of their own do, of the same terms.
LEMMA FoldsAgree ==
  ASSUME NEW f, NEW h, NEW S, IsFiniteSet(S), NEW T \in SUBSET S,
         \A x \in T : f[x] = h[x],
         NEW g, IsFold(f, g, S), NEW k, IsFold(h, k, T)
  PROVE  g[T] = k[T]
  <1> DEFINE Bad == {s \in SUBSET T : g[s] # k[s]}
  <1>1. \A s \in SUBSET T : IsFiniteSet(s) /\ s \in SUBSET S
    BY FS_Subset
  <1>2. ASSUME Bad # {} PROVE FALSE
    <2>1. PICK s \in Bad : \A t \in Bad : Cardinality(s) <= Cardinality(t)
      BY <1>1, <1>2, SmallestSet
    <2>2. /\ g[s] = IF s = {} THEN 0 ELSE f[Pick(s)] + g[Without(s)]
          /\ k[s] = IF s = {} THEN 0 ELSE h[Pick(s)] + k[Without(s)]
      BY <1>1 DEF IsFold
    <2>3. s # {}
      BY <2>1, <2>2
    <2>4. /\ Pick(s) \in T /\ Without(s) \in SUBSET T
          /\ ~ (Cardinality(s) <= Cardinality(Without(s)))
      BY <1>1, <2>3, OneLess
    <2>5. g[Without(s)] = k[Without(s)]
      BY <2>1, <2>4
    <2> QED BY <2>1, <2>2, <2>3, <2>4, <2>5
  <1> QED BY <1>2

LEMMA SumIsFold ==
  ASSUME NEW f, NEW S, IsFiniteSet(S)
  PROVE  \E g : IsFold(f, g, S) /\ SumFunctionOnSet(f, S) = g[S]
  <1> DEFINE g == CHOOSE g : IsFold(f, g, S)
  <1>1. IsFold(f, g, S)
    BY FoldExists
  <1>2. SumFunctionOnSet(f, S) = g[S]
    BY DEF SumFunctionOnSet, FoldFunctionOnSet, MapThenFoldSet, IsFold, Pick, Without
  <1> QED BY <1>1, <1>2
----------------------------------------------------------------------------
(***************************************************************************)
(* Element by element                                                      *)
(***************************************************************************)
LEMMA SumOfNone == ASSUME NEW f PROVE SumFunctionOnSet(f, {}) = 0
  <1>1. PICK g : IsFold(f, g, {}) /\ SumFunctionOnSet(f, {}) = g[{}]
    BY FS_EmptySet, SumIsFold
  <1> QED BY <1>1 DEF IsFold

LEMMA SumOfSame ==
  ASSUME NEW S, IsFiniteSet(S), NEW f, NEW h, \A x \in S : f[x] = h[x]
  PROVE  SumFunctionOnSet(f, S) = SumFunctionOnSet(h, S)
  <1>1. PICK g : IsFold(f, g, S) /\ SumFunctionOnSet(f, S) = g[S]
    BY SumIsFold
  <1>2. PICK k : IsFold(h, k, S) /\ SumFunctionOnSet(h, S) = k[S]
    BY SumIsFold
  <1>3. S \in SUBSET S
    OBVIOUS
  <1>4. g[S] = k[S]
    BY <1>1, <1>2, <1>3, FoldsAgree
  <1> QED BY <1>1, <1>2, <1>4

LEMMA SumOfPicked ==
  ASSUME NEW S, IsFiniteSet(S), S # {}, NEW f
  PROVE  SumFunctionOnSet(f, S) = f[Pick(S)] + SumFunctionOnSet(f, Without(S))
  <1>1. PICK g : IsFold(f, g, S) /\ SumFunctionOnSet(f, S) = g[S]
    BY SumIsFold
  <1>2. Without(S) \in SUBSET S /\ IsFiniteSet(Without(S))
    BY OneLess
  <1>3. PICK k : IsFold(f, k, Without(S)) /\ SumFunctionOnSet(f, Without(S)) = k[Without(S)]
    BY <1>2, SumIsFold
  <1>4. g[Without(S)] = k[Without(S)]
    BY <1>1, <1>2, <1>3, FoldsAgree
  <1>5. g[S] = f[Pick(S)] + g[Without(S)]
    BY <1>1 DEF IsFold
  <1> QED BY <1>1, <1>3, <1>4, <1>5

LEMMA SumIsInt ==
  ASSUME NEW S, IsFiniteSet(S), NEW f, \A x \in S : f[x] \in Int
  PROVE  SumFunctionOnSet(f, S) \in Int
  <1> DEFINE Bad == {s \in SUBSET S : SumFunctionOnSet(f, s) \notin Int}
  <1>1. \A s \in SUBSET S : IsFiniteSet(s)
    BY FS_Subset
  <1>2. ASSUME Bad # {} PROVE FALSE
    <2>1. PICK s \in Bad : \A t \in Bad : Cardinality(s) <= Cardinality(t)
      BY <1>1, <1>2, SmallestSet
    <2>2. s # {}
      BY <2>1, SumOfNone
    <2>3. /\ Pick(s) \in S /\ Without(s) \in SUBSET S
          /\ ~ (Cardinality(s) <= Cardinality(Without(s)))
      BY <1>1, <2>2, OneLess
    <2>4. SumFunctionOnSet(f, Without(s)) \in Int
      BY <2>1, <2>3
    <2>5. SumFunctionOnSet(f, s) = f[Pick(s)] + SumFunctionOnSet(f, Without(s))
      BY <1>1, <2>2, SumOfPicked
    <2> QED BY <2>1, <2>3, <2>4, <2>5
  <1> QED BY <1>2

LEMMA SumIsNat ==
  ASSUME NEW S, IsFiniteSet(S), NEW f, \A x \in S : f[x] \in Nat
  PROVE  SumFunctionOnSet(f, S) \in Nat
  <1> DEFINE Bad == {s \in SUBSET S : SumFunctionOnSet(f, s) \notin Nat}
  <1>1. \A s \in SUBSET S : IsFiniteSet(s)
    BY FS_Subset
  <1>2. ASSUME Bad # {} PROVE FALSE
    <2>1. PICK s \in Bad : \A t \in Bad : Cardinality(s) <= Cardinality(t)
      BY <1>1, <1>2, SmallestSet
    <2>2. s # {}
      BY <2>1, SumOfNone
    <2>3. /\ Pick(s) \in S /\ Without(s) \in SUBSET S
          /\ ~ (Cardinality(s) <= Cardinality(Without(s)))
      BY <1>1, <2>2, OneLess
    <2>4. SumFunctionOnSet(f, Without(s)) \in Nat
      BY <2>1, <2>3
    <2>5. SumFunctionOnSet(f, s) = f[Pick(s)] + SumFunctionOnSet(f, Without(s))
      BY <1>1, <2>2, SumOfPicked
    <2> QED BY <2>1, <2>3, <2>4, <2>5
  <1> QED BY <1>2

\* Any element may be taken first.
LEMMA SumWithout ==
  ASSUME NEW S, IsFiniteSet(S), NEW f, \A y \in S : f[y] \in Int, NEW x \in S
  PROVE  SumFunctionOnSet(f, S) = f[x] + SumFunctionOnSet(f, S \ {x})
  <1> DEFINE sum(s) == SumFunctionOnSet(f, s)
             Bad == {s \in SUBSET S : \E y \in s : sum(s) # f[y] + sum(s \ {y})}
  <1>1. \A s \in SUBSET S : IsFiniteSet(s) /\ sum(s) \in Int
    BY FS_Subset, SumIsInt
  <1>2. ASSUME Bad # {} PROVE FALSE
    <2>1. PICK s \in Bad : \A t \in Bad : Cardinality(s) <= Cardinality(t)
      BY <1>1, <1>2, SmallestSet
    <2>2. PICK y \in s : sum(s) # f[y] + sum(s \ {y})
      BY <2>1
    <2> DEFINE c == Pick(s)
    <2>3. IsFiniteSet(s) /\ s # {} /\ s \in SUBSET S
      BY <1>1, <2>2
    <2>4. c \in s /\ Without(s) = s \ {c}
      BY <2>3, OneLess DEF Without
    <2>5. sum(s) = f[c] + sum(s \ {c})
      BY <2>3, <2>4, SumOfPicked
    <2> HIDE DEF sum
    <2>6. y # c
      BY <2>2, <2>5
    <2>7. \A z \in s : s \ {z} \in SUBSET S /\ s \ {z} \notin Bad
      <3> SUFFICES ASSUME NEW z \in s PROVE s \ {z} \in SUBSET S /\ s \ {z} \notin Bad
        OBVIOUS
      <3>1. Cardinality(s) \in Nat /\ Cardinality(s \ {z}) = Cardinality(s) - 1
        BY <2>3, FS_RemoveElement, FS_CardinalityType
      <3>2. ~ (Cardinality(s) <= Cardinality(s \ {z}))
        BY <3>1
      <3> QED BY <2>1, <2>3, <3>2
    <2>8. sum(s \ {c}) = f[y] + sum((s \ {c}) \ {y})
      BY <2>2, <2>4, <2>6, <2>7
    <2>9. sum(s \ {y}) = f[c] + sum((s \ {y}) \ {c})
      BY <2>2, <2>4, <2>6, <2>7
    <2>10. (s \ {c}) \ {y} = (s \ {y}) \ {c}
      OBVIOUS
    <2>11. f[c] \in Int /\ f[y] \in Int /\ sum((s \ {y}) \ {c}) \in Int
      BY <1>1, <2>3, <2>4
    <2>12. sum(s \ {c}) = f[y] + sum((s \ {y}) \ {c})
      BY <2>8, <2>10
    <2>13. sum(s) = f[y] + sum(s \ {y})
      BY <2>5, <2>9, <2>11, <2>12
    <2> QED BY <2>2, <2>13
  <1>3. S \in SUBSET S /\ S \notin Bad
    BY <1>2
  <1> QED BY <1>3

LEMMA SumWithOneMore ==
  ASSUME NEW S, IsFiniteSet(S), NEW x, x \notin S, NEW f, \A y \in S \cup {x} : f[y] \in Int
  PROVE  SumFunctionOnSet(f, S \cup {x}) = f[x] + SumFunctionOnSet(f, S)
  <1>1. IsFiniteSet(S \cup {x}) /\ x \in S \cup {x} /\ (S \cup {x}) \ {x} = S
    BY FS_AddElement
  <1>2. SumFunctionOnSet(f, S \cup {x}) = f[x] + SumFunctionOnSet(f, (S \cup {x}) \ {x})
    BY <1>1, SumWithout
  <1> QED BY <1>1, <1>2
----------------------------------------------------------------------------
(***************************************************************************)
(* Two sums, and sums of sums                                              *)
(***************************************************************************)
LEMMA SumOfZeros ==
  ASSUME NEW S, IsFiniteSet(S), NEW f, \A x \in S : f[x] = 0
  PROVE  SumFunctionOnSet(f, S) = 0
  <1> DEFINE Bad == {s \in SUBSET S : SumFunctionOnSet(f, s) # 0}
  <1>1. \A s \in SUBSET S : IsFiniteSet(s)
    BY FS_Subset
  <1>2. ASSUME Bad # {} PROVE FALSE
    <2>1. PICK s \in Bad : \A t \in Bad : Cardinality(s) <= Cardinality(t)
      BY <1>1, <1>2, SmallestSet
    <2>2. s # {}
      BY <2>1, SumOfNone
    <2>3. /\ Pick(s) \in S /\ Without(s) \in SUBSET S
          /\ ~ (Cardinality(s) <= Cardinality(Without(s)))
      BY <1>1, <2>2, OneLess
    <2>4. SumFunctionOnSet(f, Without(s)) = 0
      BY <2>1, <2>3
    <2>5. SumFunctionOnSet(f, s) = f[Pick(s)] + SumFunctionOnSet(f, Without(s))
      BY <1>1, <2>2, SumOfPicked
    <2> QED BY <2>1, <2>3, <2>4, <2>5
  <1> QED BY <1>2

LEMMA SumOfOnes ==
  ASSUME NEW S, IsFiniteSet(S), NEW f, \A x \in S : f[x] = 1
  PROVE  SumFunctionOnSet(f, S) = Cardinality(S)
  <1> DEFINE Bad == {s \in SUBSET S : SumFunctionOnSet(f, s) # Cardinality(s)}
  <1>1. \A s \in SUBSET S : IsFiniteSet(s)
    BY FS_Subset
  <1>2. ASSUME Bad # {} PROVE FALSE
    <2>1. PICK s \in Bad : \A t \in Bad : Cardinality(s) <= Cardinality(t)
      BY <1>1, <1>2, SmallestSet
    <2>2. s # {}
      BY <2>1, SumOfNone, FS_EmptySet
    <2>3. /\ Pick(s) \in S /\ Without(s) \in SUBSET S
          /\ ~ (Cardinality(s) <= Cardinality(Without(s)))
          /\ Cardinality(s) \in Nat /\ Cardinality(Without(s)) = Cardinality(s) - 1
      BY <1>1, <2>2, OneLess
    <2>4. SumFunctionOnSet(f, Without(s)) = Cardinality(Without(s))
      BY <2>1, <2>3
    <2>5. SumFunctionOnSet(f, s) = f[Pick(s)] + SumFunctionOnSet(f, Without(s))
      BY <1>1, <2>2, SumOfPicked
    <2> QED BY <2>1, <2>3, <2>4, <2>5
  <1> QED BY <1>2

LEMMA SumOfTwo ==
  ASSUME NEW S, IsFiniteSet(S), NEW f, NEW h, NEW total,
         \A x \in S : f[x] \in Int /\ h[x] \in Int /\ total[x] = f[x] + h[x]
  PROVE  SumFunctionOnSet(total, S) = SumFunctionOnSet(f, S) + SumFunctionOnSet(h, S)
  <1> DEFINE Bad == {s \in SUBSET S :
                SumFunctionOnSet(total, s) # SumFunctionOnSet(f, s) + SumFunctionOnSet(h, s)}
  <1>1. \A s \in SUBSET S : /\ IsFiniteSet(s)
                            /\ SumFunctionOnSet(f, s) \in Int /\ SumFunctionOnSet(h, s) \in Int
    <2> SUFFICES ASSUME NEW s \in SUBSET S
                 PROVE  /\ IsFiniteSet(s)
                        /\ SumFunctionOnSet(f, s) \in Int /\ SumFunctionOnSet(h, s) \in Int
      OBVIOUS
    <2>1. IsFiniteSet(s)
      BY FS_Subset
    <2>2. (\A x \in s : f[x] \in Int) /\ \A x \in s : h[x] \in Int
      OBVIOUS
    <2> QED BY <2>1, <2>2, SumIsInt
  <1>2. ASSUME Bad # {} PROVE FALSE
    <2>1. PICK s \in Bad : \A t \in Bad : Cardinality(s) <= Cardinality(t)
      BY <1>1, <1>2, SmallestSet
    <2>2. s # {}
      BY <2>1, SumOfNone
    <2>3. /\ Pick(s) \in S /\ Without(s) \in SUBSET S
          /\ ~ (Cardinality(s) <= Cardinality(Without(s)))
      BY <1>1, <2>2, OneLess
    <2> DEFINE t == Without(s)
               c == Pick(s)
    <2>4. SumFunctionOnSet(total, t) = SumFunctionOnSet(f, t) + SumFunctionOnSet(h, t)
      BY <2>1, <2>3
    <2>5. /\ SumFunctionOnSet(total, s) = total[c] + SumFunctionOnSet(total, t)
          /\ SumFunctionOnSet(f, s) = f[c] + SumFunctionOnSet(f, t)
          /\ SumFunctionOnSet(h, s) = h[c] + SumFunctionOnSet(h, t)
      BY <1>1, <2>2, SumOfPicked
    <2>6. /\ f[c] \in Int /\ h[c] \in Int /\ total[c] = f[c] + h[c]
          /\ SumFunctionOnSet(f, t) \in Int /\ SumFunctionOnSet(h, t) \in Int
      BY <1>1, <2>3
    <2> HIDE DEF t, c
    <2>7. SumFunctionOnSet(total, s) = SumFunctionOnSet(f, s) + SumFunctionOnSet(h, s)
      BY <2>4, <2>5, <2>6
    <2> QED BY <2>1, <2>7
  <1> QED BY <1>2

\* Terms that are zero may be left out.
LEMMA SumOfPart ==
  ASSUME NEW S, IsFiniteSet(S), NEW T \in SUBSET S, NEW f,
         \A x \in S : f[x] \in Int, \A x \in S \ T : f[x] = 0
  PROVE  SumFunctionOnSet(f, S) = SumFunctionOnSet(f, T)
  <1> DEFINE Bad == {U \in SUBSET (S \ T) : SumFunctionOnSet(f, T \cup U) # SumFunctionOnSet(f, T)}
  <1>1. \A U \in SUBSET (S \ T) : IsFiniteSet(U) /\ IsFiniteSet(T \cup U)
    BY FS_Subset
  <1>2. ASSUME Bad # {} PROVE FALSE
    <2>1. PICK U \in Bad : \A V \in Bad : Cardinality(U) <= Cardinality(V)
      BY <1>1, <1>2, SmallestSet
    <2>2. U # {}
      <3>1. U = {} => T \cup U = T
        OBVIOUS
      <3> QED BY <2>1, <3>1
    <2>3. /\ Pick(U) \in U /\ Without(U) \in SUBSET (S \ T)
          /\ ~ (Cardinality(U) <= Cardinality(Without(U)))
      BY <1>1, <2>2, OneLess
    <2>4. SumFunctionOnSet(f, T \cup Without(U)) = SumFunctionOnSet(f, T)
      BY <2>1, <2>3
    <2>5. /\ Pick(U) \in T \cup U
          /\ (T \cup U) \ {Pick(U)} = T \cup Without(U)
      BY <2>3 DEF Without
    <2>6. \A y \in T \cup U : f[y] \in Int
      OBVIOUS
    <2>7. SumFunctionOnSet(f, T \cup U)
            = f[Pick(U)] + SumFunctionOnSet(f, (T \cup U) \ {Pick(U)})
      BY <1>1, <2>5, <2>6, SumWithout
    <2>8. f[Pick(U)] = 0 /\ SumFunctionOnSet(f, T) \in Int
      <3>1. IsFiniteSet(T) /\ \A x \in T : f[x] \in Int
        BY FS_Subset
      <3> QED BY <2>3, <3>1, SumIsInt
    <2>9. SumFunctionOnSet(f, T \cup U) = SumFunctionOnSet(f, T)
      <3>1. SumFunctionOnSet(f, (T \cup U) \ {Pick(U)}) = SumFunctionOnSet(f, T)
        BY <2>4, <2>5
      <3>2. SumFunctionOnSet(f, T \cup U) = 0 + SumFunctionOnSet(f, T)
        BY <2>7, <2>8, <3>1
      <3> QED BY <2>8, <3>2
    <2> QED BY <2>1, <2>9
  <1>3. T \cup (S \ T) = S /\ S \ T \in SUBSET (S \ T)
    OBVIOUS
  <1>4. SumFunctionOnSet(f, T \cup (S \ T)) = SumFunctionOnSet(f, T)
    BY <1>2, <1>3
  <1> QED BY <1>3, <1>4

\* The elements of one key.
Group(S, key, k) == {x \in S : key[x] = k}

\* The sum over all groups of the sum over each: GROUP BY loses nothing and counts nothing twice.
LEMMA SumOfGroups ==
  ASSUME NEW S, IsFiniteSet(S), NEW D, IsFiniteSet(D), NEW f, NEW key, NEW sums,
         \A x \in S : f[x] \in Int /\ key[x] \in D,
         \A d \in D : sums[d] = SumFunctionOnSet(f, Group(S, key, d))
  PROVE  SumFunctionOnSet(f, S) = SumFunctionOnSet(sums, D)
  <1> DEFINE group(s, d) == {x \in s : key[x] = d}
             part(s) == [d \in D |-> SumFunctionOnSet(f, group(s, d))]
             Bad == {s \in SUBSET S : SumFunctionOnSet(f, s) # SumFunctionOnSet(part(s), D)}
  <1>1. \A s \in SUBSET S : IsFiniteSet(s)
    BY FS_Subset
  <1>2. ASSUME NEW s \in SUBSET S, NEW d \in D
        PROVE  IsFiniteSet(group(s, d)) /\ part(s)[d] \in Int
    <2>1. group(s, d) \in SUBSET S /\ \A x \in group(s, d) : f[x] \in Int
      OBVIOUS
    <2> QED BY <1>1, <2>1, SumIsInt
  <1>3. ASSUME Bad # {} PROVE FALSE
    <2>1. PICK s \in Bad : \A t \in Bad : Cardinality(s) <= Cardinality(t)
      BY <1>1, <1>3, SmallestSet
    <2>2. s # {}
      <3>1. ASSUME s = {} PROVE FALSE
        <4>1. \A d \in D : part(s)[d] = 0
          <5>1. \A d \in D : group(s, d) = {}
            BY <3>1
          <5> QED BY <5>1, SumOfNone
        <4>2. SumFunctionOnSet(part(s), D) = 0
          BY <4>1, SumOfZeros
        <4> QED BY <2>1, <3>1, <4>2, SumOfNone
      <3> QED BY <3>1
    <2> DEFINE t == Without(s)
               c == Pick(s)
               k == key[c]
    <2>3. /\ c \in s /\ c \in S /\ k \in D /\ t = s \ {c} /\ t \in SUBSET S
          /\ ~ (Cardinality(s) <= Cardinality(t))
      <3>1. s \in SUBSET S /\ IsFiniteSet(s)
        BY <1>1
      <3>2. c \in s /\ Cardinality(s) \in Nat /\ Cardinality(t) = Cardinality(s) - 1
        BY <2>2, <3>1, OneLess
      <3>3. t = s \ {c}
        BY DEF Without
      <3> QED BY <3>1, <3>2, <3>3
    <2>4. SumFunctionOnSet(f, t) = SumFunctionOnSet(part(t), D)
      BY <2>1, <2>3
    <2>5. SumFunctionOnSet(f, s) = f[c] + SumFunctionOnSet(f, t)
      BY <1>1, <2>1, <2>2, SumOfPicked
    <2> HIDE DEF t, c, k
    <2>6. ASSUME NEW d \in D, d # k PROVE part(s)[d] = part(t)[d]
      <3>1. group(s, d) = group(t, d)
        BY <2>3, <2>6 DEF k
      <3> QED BY <3>1
    <2>7. part(s)[k] = f[c] + part(t)[k]
      <3>1. c \in group(s, k) /\ group(s, k) \ {c} = group(t, k)
        BY <2>3 DEF k
      <3>2. IsFiniteSet(group(s, k)) /\ \A x \in group(s, k) : f[x] \in Int
        BY <1>2, <2>1, <2>3
      <3>3. SumFunctionOnSet(f, group(s, k)) = f[c] + SumFunctionOnSet(f, group(s, k) \ {c})
        BY <3>1, <3>2, SumWithout
      <3> QED BY <2>3, <3>1, <3>3
    <2>8. /\ SumFunctionOnSet(part(s), D) = part(s)[k] + SumFunctionOnSet(part(s), D \ {k})
          /\ SumFunctionOnSet(part(t), D) = part(t)[k] + SumFunctionOnSet(part(t), D \ {k})
      <3>1. \A u \in SUBSET S : \A d \in D : part(u)[d] \in Int
        BY <1>2
      <3> HIDE DEF part
      <3> QED BY <2>1, <2>3, <3>1, SumWithout
    <2>9. /\ SumFunctionOnSet(part(s), D \ {k}) = SumFunctionOnSet(part(t), D \ {k})
          /\ SumFunctionOnSet(part(t), D \ {k}) \in Int
      <3>1. IsFiniteSet(D \ {k}) /\ \A d \in D \ {k} : part(t)[d] \in Int
        BY <1>2, <2>3, FS_Subset
      <3> HIDE DEF part
      <3> QED BY <2>6, <3>1, SumOfSame, SumIsInt
    <2>10. f[c] \in Int /\ part(t)[k] \in Int
      BY <1>2, <2>3
    <2> HIDE DEF part
    <2>11. SumFunctionOnSet(f, s) = SumFunctionOnSet(part(s), D)
      BY <2>4, <2>5, <2>7, <2>8, <2>9, <2>10
    <2> QED BY <2>1, <2>11
  <1>4. SumFunctionOnSet(f, S) = SumFunctionOnSet(part(S), D)
    <2>1. S \in SUBSET S
      OBVIOUS
    <2> QED BY <1>3, <2>1
  <1>5. \A d \in D : part(S)[d] = sums[d]
    BY DEF Group
  <1> HIDE DEF part
  <1> QED BY <1>4, <1>5, SumOfSame

\* Each element under a name of its own.
Renamed(S, name) == {name[x] : x \in S}

LEMMA SumRenamed ==
  ASSUME NEW S, IsFiniteSet(S), NEW f, NEW name, NEW h,
         \A x \in S : f[x] \in Int /\ h[name[x]] = f[x],
         \A x, y \in S : name[x] = name[y] => x = y
  PROVE  LET T == Renamed(S, name)
         IN  /\ IsFiniteSet(T) /\ Cardinality(T) = Cardinality(S)
             /\ SumFunctionOnSet(h, T) = SumFunctionOnSet(f, S)
  <1> DEFINE image(s) == {name[x] : x \in s}
             Holds(s) == /\ IsFiniteSet(image(s)) /\ Cardinality(image(s)) = Cardinality(s)
                         /\ SumFunctionOnSet(h, image(s)) = SumFunctionOnSet(f, s)
             Bad == {s \in SUBSET S : ~ Holds(s)}
  <1>1. \A s \in SUBSET S : IsFiniteSet(s)
    BY FS_Subset
  <1>2. ASSUME Bad # {} PROVE FALSE
    <2>1. PICK s \in Bad : \A t \in Bad : Cardinality(s) <= Cardinality(t)
      BY <1>1, <1>2, SmallestSet
    <2>2. s # {}
      <3>1. image({}) = {}
        OBVIOUS
      <3>2. Holds({})
        BY <3>1, FS_EmptySet, SumOfNone
      <3> QED BY <2>1, <3>2
    <2> DEFINE t == Without(s)
               c == Pick(s)
    <2>3. /\ c \in s /\ t = s \ {c} /\ t \in SUBSET S
          /\ Cardinality(s) \in Nat /\ Cardinality(t) = Cardinality(s) - 1
      BY <1>1, <2>1, <2>2, OneLess DEF Without
    <2>4. Holds(t)
      <3>1. ~ (Cardinality(s) <= Cardinality(t))
        BY <2>3
      <3> QED BY <2>1, <2>3, <3>1
    <2>5. SumFunctionOnSet(f, s) = f[c] + SumFunctionOnSet(f, t)
      BY <1>1, <2>1, <2>2, SumOfPicked
    <2> HIDE DEF t, c
    <2>6. image(s) = image(t) \cup {name[c]} /\ name[c] \notin image(t)
      <3>1. ASSUME name[c] \in image(t) PROVE FALSE
        <4>1. PICK x \in t : name[c] = name[x]
          BY <3>1
        <4>2. x \in S /\ c \in S /\ x # c
          BY <2>1, <2>3, <4>1
        <4> QED BY <4>1, <4>2
      <3>2. image(s) = image(t) \cup {name[c]}
        BY <2>3
      <3> QED BY <3>1, <3>2
    <2>7. /\ IsFiniteSet(image(s)) /\ Cardinality(image(s)) = Cardinality(s)
      <3>1. IsFiniteSet(image(t)) /\ Cardinality(image(t)) = Cardinality(s) - 1
        BY <2>3, <2>4
      <3> HIDE DEF image
      <3>2. /\ IsFiniteSet(image(s))
            /\ Cardinality(image(s)) = Cardinality(image(t)) + 1
        <4>1. /\ IsFiniteSet(image(t) \cup {name[c]})
              /\ Cardinality(image(t) \cup {name[c]}) = Cardinality(image(t)) + 1
          BY <2>6, <3>1, FS_AddElement
        <4> QED BY <2>6, <4>1
      <3> QED BY <2>3, <3>1, <3>2
    <2>8. SumFunctionOnSet(h, image(s)) = h[name[c]] + SumFunctionOnSet(h, image(t))
      <3>1. \A y \in image(t) \cup {name[c]} : h[y] \in Int
        BY <2>1, <2>6
      <3>2. IsFiniteSet(image(t))
        BY <2>4
      <3> HIDE DEF image
      <3> QED BY <2>6, <3>1, <3>2, SumWithOneMore
    <2>9. h[name[c]] = f[c]
      BY <2>1, <2>3
    <2>10. Holds(s)
      BY <2>4, <2>5, <2>7, <2>8, <2>9
    <2> QED BY <2>1, <2>10
  <1>3. Holds(S)
    <2>1. S \in SUBSET S
      OBVIOUS
    <2> HIDE DEF Holds
    <2> QED BY <1>2, <2>1
  <1> QED BY <1>3 DEF Renamed
----------------------------------------------------------------------------
(***************************************************************************)
(* As the queries use them                                                 *)
(***************************************************************************)
LEMMA SumOfFunction ==
  ASSUME NEW S, IsFiniteSet(S), NEW f
  PROVE  SumFunction([x \in S |-> f[x]]) = SumFunctionOnSet(f, S)
  <1> DEFINE h == [x \in S |-> f[x]]
  <1>1. SumFunction(h) = SumFunctionOnSet(h, S)
    BY DEF SumFunction
  <1>2. \A x \in S : h[x] = f[x]
    OBVIOUS
  <1> HIDE DEF h
  <1>3. SumFunctionOnSet(h, S) = SumFunctionOnSet(f, S)
    BY <1>2, SumOfSame
  <1> QED BY <1>1, <1>3 DEF h

\* The keys by which a finite table is grouped are finitely many.
LEMMA KeysFinite ==
  ASSUME NEW S, IsFiniteSet(S), NEW key
  PROVE  IsFiniteSet({key[x] : x \in S})
  <1> DEFINE k == [x \in S |-> key[x]]
  <1>1. k \in Surjection(S, {key[x] : x \in S})
    BY DEF Surjection
  <1> QED BY <1>1, FS_Surjection

\* count() of the groups adds up to count() of the table.
LEMMA CountOfGroups ==
  ASSUME NEW S, IsFiniteSet(S), NEW D, IsFiniteSet(D), NEW key, NEW counts,
         \A x \in S : key[x] \in D,
         \A d \in D : counts[d] = Cardinality(Group(S, key, d))
  PROVE  SumFunctionOnSet(counts, D) = Cardinality(S)
  <1> DEFINE ones == [x \in S |-> 1]
  <1>1. \A x \in S : ones[x] \in Int /\ key[x] \in D
    OBVIOUS
  <1>2. ASSUME NEW d \in D
        PROVE  counts[d] = SumFunctionOnSet(ones, Group(S, key, d))
    <2>1. IsFiniteSet(Group(S, key, d)) /\ \A x \in Group(S, key, d) : ones[x] = 1
      BY FS_Subset DEF Group
    <2> HIDE DEF ones
    <2> QED BY <2>1, SumOfOnes
  <1>3. \A x \in S : ones[x] = 1
    OBVIOUS
  <1> HIDE DEF ones
  <1>4. SumFunctionOnSet(ones, S) = SumFunctionOnSet(counts, D)
    BY <1>1, <1>2, SumOfGroups
  <1>5. SumFunctionOnSet(ones, S) = Cardinality(S)
    BY <1>3, SumOfOnes
  <1> QED BY <1>4, <1>5
==============================================================================
