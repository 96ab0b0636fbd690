----------------------------- MODULE SumTheorems -----------------------------
(***************************************************************************)
(* The sums of the community module Functions: a sum does not depend on    *)
(* the order of its terms, so that a term may be taken out of it, put into *)
(* it or replaced.  An element of smallest cardinality, or a smallest set, *)
(* takes the place of an induction.                                        *)
(***************************************************************************)
EXTENDS Functions, FiniteSets, FiniteSetTheorems, WellFoundedInduction, TLAPS

First(s) == CHOOSE x \in s : TRUE
IsSum(g, f, S) ==
    g = [s \in SUBSET S |-> IF s = {} THEN 0 ELSE f[First(s)] + g[s \ {First(s)}]]
PartialSums(f, S) == CHOOSE g : IsSum(g, f, S)

LEMMA SumUnfolded ==
    ASSUME NEW f, NEW S
    PROVE  SumFunctionOnSet(f, S) = PartialSums(f, S)[S]
BY Zenon DEF SumFunctionOnSet, FoldFunctionOnSet, MapThenFoldSet, PartialSums, IsSum, First

LEMMA FirstIsMember ==
    ASSUME NEW s, s # {}
    PROVE  First(s) \in s
BY DEF First

-----------------------------------------------------------------------------
(* A smallest set                                                          *)

\* Of the subsets of a finite set that one looks at, one has no other below it.
LEMMA SmallestSubset ==
    ASSUME NEW S, IsFiniteSet(S), NEW Q \in SUBSET SUBSET S, Q # {}
    PROVE  \E s \in Q : \A t \in Q : t \subseteq s => t = s
<1> DEFINE R == StrictSubsetOrdering(S)
<1>1. IsWellFoundedOn(R, FiniteSubsetsOf(S))
  BY FS_StrictSubsetOrderingWellFounded
<1>2. Q \subseteq FiniteSubsetsOf(S)
  BY FS_Subset DEF FiniteSubsetsOf
<1>3. PICK s \in Q : \A t \in Q : ~ (<<t, s>> \in R)
  <2> HIDE DEF R
  <2>1. QED
    BY <1>1, <1>2, WFMin
<1>4. ASSUME NEW t \in Q, t \subseteq s, t # s
      PROVE  FALSE
  <2>1. <<t, s>> \in R
    BY <1>4 DEF StrictSubsetOrdering
  <2>2. QED
    BY <1>3, <2>1
<1>5. QED
  BY <1>3, <1>4

-----------------------------------------------------------------------------
(* The partial sums exist and are unique                                   *)

LEMMA SumValue ==
    ASSUME NEW g, NEW f, NEW S, IsSum(g, f, S), NEW s \in SUBSET S
    PROVE  g[s] = IF s = {} THEN 0 ELSE f[First(s)] + g[s \ {First(s)}]
BY DEF IsSum

LEMMA SumRestricted ==
    ASSUME NEW g, NEW f, NEW S, IsSum(g, f, S), NEW T \in SUBSET S
    PROVE  IsSum([s \in SUBSET T |-> g[s]], f, T)
<1> DEFINE h == [s \in SUBSET T |-> g[s]]
<1>1. ASSUME NEW s \in SUBSET T
      PROVE  h[s] = IF s = {} THEN 0 ELSE f[First(s)] + h[s \ {First(s)}]
  <2>1. g[s] = IF s = {} THEN 0 ELSE f[First(s)] + g[s \ {First(s)}]
    BY SumValue
  <2>2. h[s] = g[s] /\ h[s \ {First(s)}] = g[s \ {First(s)}]
    OBVIOUS
  <2>3. QED
    BY <2>1, <2>2
<1>2. h = [s \in SUBSET T |-> h[s]]
  OBVIOUS
<1> HIDE DEF h
<1>3. IsSum(h, f, T)
  BY <1>1, <1>2 DEF IsSum
<1>4. QED
  BY <1>3 DEF h

LEMMA SumUnique ==
    ASSUME NEW g, NEW h, NEW f, NEW S, IsFiniteSet(S), IsSum(g, f, S), IsSum(h, f, S),
           NEW s \in SUBSET S
    PROVE  g[s] = h[s]
<1> DEFINE Q == {t \in SUBSET S : g[t] # h[t]}
<1> SUFFICES ASSUME Q # {} PROVE FALSE
  OBVIOUS
<1>1. PICK t \in Q : \A u \in Q : u \subseteq t => u = t
  <2>1. Q \in SUBSET SUBSET S
    OBVIOUS
  <2> HIDE DEF Q
  <2>2. QED
    BY <2>1, SmallestSubset
<1>2. t # {}
  BY SumValue
<1> DEFINE u == t \ {First(t)}
<1>3. u \in SUBSET S /\ u \subseteq t /\ u # t
  BY <1>2, FirstIsMember
<1>4. g[u] = h[u]
  BY <1>1, <1>3
<1>5. g[t] = f[First(t)] + g[u] /\ h[t] = f[First(t)] + h[u]
  BY <1>2, SumValue
<1>6. QED
  BY <1>1, <1>4, <1>5

LEMMA SumExists ==
    ASSUME NEW f, NEW S, IsFiniteSet(S)
    PROVE  IsSum(PartialSums(f, S), f, S)
<1> DEFINE Q == {T \in SUBSET S : ~ \E g : IsSum(g, f, T)}
<1>1. SUFFICES ASSUME Q # {} PROVE FALSE
  <2>1. S \notin Q
    BY <1>1
  <2>2. \E g : IsSum(g, f, S)
    BY <2>1
  <2>3. QED
    BY <2>2 DEF PartialSums
<1>2. PICK T \in Q : \A u \in Q : u \subseteq T => u = T
  <2>1. Q \in SUBSET SUBSET S
    OBVIOUS
  <2> HIDE DEF Q
  <2>2. QED
    BY <1>1, <2>1, SmallestSubset
<1>3. ASSUME NEW u \in SUBSET T, u # T
      PROVE  IsSum(PartialSums(f, u), f, u)
  <2>1. \E g : IsSum(g, f, u)
    BY <1>2, <1>3
  <2>2. QED
    BY <2>1 DEF PartialSums
<1> DEFINE Below(s) == s \ {First(s)}
           total(s) == PartialSums(f, s)[s]
           g == [s \in SUBSET T |-> IF s = {} THEN 0 ELSE f[First(s)] + total(Below(s))]
<1>4. ASSUME NEW s \in SUBSET T, s # {}
      PROVE  /\ Below(s) \in SUBSET T /\ Below(s) # T
             /\ g[Below(s)] = total(Below(s))
  <2>1. Below(s) \in SUBSET T /\ Below(s) # T
    BY <1>4, FirstIsMember
  <2>2. PICK u : u = Below(s)
    OBVIOUS
  <2>3. IsSum(PartialSums(f, u), f, u) /\ u \in SUBSET T
    BY <1>3, <2>1, <2>2
  <2>4. total(u) = IF u = {} THEN 0 ELSE f[First(u)] + PartialSums(f, u)[Below(u)]
    BY <2>3, SumValue
  <2>5. u # {} => PartialSums(f, u)[Below(u)] = total(Below(u))
    <3>1. SUFFICES ASSUME u # {} PROVE PartialSums(f, u)[Below(u)] = total(Below(u))
      OBVIOUS
    <3>2. PICK v : v = Below(u)
      OBVIOUS
    <3>3. v \in SUBSET u /\ v \in SUBSET T /\ v # T
      BY <2>1, <2>2, <3>2
    <3>4. IsSum(PartialSums(f, v), f, v)
      BY <1>3, <3>3
    <3> DEFINE r == [s_1 \in SUBSET v |-> PartialSums(f, u)[s_1]]
    <3>5. IsSum(r, f, v)
      BY <2>3, <3>3, SumRestricted
    <3>6. IsFiniteSet(v)
      BY <1>2, <3>3, FS_Subset
    <3> HIDE DEF r
    <3>7. r[v] = PartialSums(f, v)[v]
      BY <3>4, <3>5, <3>6, SumUnique
    <3>8. r[v] = PartialSums(f, u)[v]
      BY DEF r
    <3>9. QED
      BY <3>2, <3>7, <3>8
  <2>6. g[u] = IF u = {} THEN 0 ELSE f[First(u)] + total(Below(u))
    BY <2>3
  <2>7. QED
    BY <2>1, <2>2, <2>4, <2>5, <2>6
<1>5. ASSUME NEW s \in SUBSET T
      PROVE  g[s] = IF s = {} THEN 0 ELSE f[First(s)] + g[s \ {First(s)}]
  BY <1>4
<1>6. g = [s \in SUBSET T |-> g[s]]
  OBVIOUS
<1> HIDE DEF g
<1>7. IsSum(g, f, T)
  BY <1>5, <1>6 DEF IsSum
<1>8. QED
  BY <1>2, <1>7

-----------------------------------------------------------------------------
(* Sums of integers                                                        *)

LEMMA SumEmpty ==
    ASSUME NEW f
    PROVE  SumFunctionOnSet(f, {}) = 0
<1>1. IsSum(PartialSums(f, {}), f, {})
  BY FS_EmptySet, SumExists
<1>2. PartialSums(f, {})[{}] = 0
  BY <1>1, SumValue
<1>3. QED
  BY <1>2, SumUnfolded

LEMMA SumFirst ==
    ASSUME NEW f, NEW S, IsFiniteSet(S), S # {}
    PROVE  SumFunctionOnSet(f, S) = f[First(S)] + SumFunctionOnSet(f, S \ {First(S)})
<1> DEFINE T == S \ {First(S)}
           g == PartialSums(f, S)
           h == PartialSums(f, T)
           r == [s \in SUBSET T |-> g[s]]
<1>1. T \in SUBSET S /\ IsFiniteSet(T)
  BY FS_Subset
<1>2. IsSum(g, f, S) /\ IsSum(h, f, T)
  <2> HIDE DEF T
  <2>1. QED
    BY <1>1, SumExists
<1>3. IsSum(r, f, T)
  <2> HIDE DEF T, g
  <2>1. QED
    BY <1>1, <1>2, SumRestricted
<1>4. r[T] = h[T]
  <2> HIDE DEF T, r, h
  <2>1. QED
    BY <1>1, <1>2, <1>3, SumUnique
<1>5. g[S] = f[First(S)] + g[T]
  <2> HIDE DEF g
  <2>1. QED
    BY <1>2, SumValue
<1>6. r[T] = g[T]
  OBVIOUS
<1>7. SumFunctionOnSet(f, S) = g[S] /\ SumFunctionOnSet(f, T) = h[T]
  BY SumUnfolded
<1>8. QED
  BY <1>4, <1>5, <1>6, <1>7

\* A sum of integers is one, and its first term may be any.
LEMMA SumOfIntegers ==
    ASSUME NEW f, NEW S, IsFiniteSet(S), \A x \in S : f[x] \in Int
    PROVE  SumFunctionOnSet(f, S) \in Int
<1> DEFINE Q == {T \in SUBSET S : SumFunctionOnSet(f, T) \notin Int}
<1> SUFFICES ASSUME Q # {} PROVE FALSE
  OBVIOUS
<1>1. PICK T \in Q : \A u \in Q : u \subseteq T => u = T
  <2>1. Q \in SUBSET SUBSET S
    OBVIOUS
  <2> HIDE DEF Q
  <2>2. QED
    BY <2>1, SmallestSubset
<1>2. T # {} /\ IsFiniteSet(T) /\ T \in SUBSET S
  <2>1. T \in SUBSET S /\ SumFunctionOnSet(f, T) \notin Int
    BY <1>1
  <2>2. SumFunctionOnSet(f, {}) \in Int
    BY SumEmpty
  <2>3. T # {}
    BY <2>1, <2>2
  <2>4. QED
    BY <2>1, <2>3, FS_Subset
<1>3. First(T) \in T
  BY <1>2, FirstIsMember
<1>4. PICK u : u = T \ {First(T)}
  OBVIOUS
<1>5. SumFunctionOnSet(f, u) \in Int
  BY <1>1, <1>2, <1>3, <1>4
<1>6. SumFunctionOnSet(f, T) = f[First(T)] + SumFunctionOnSet(f, u)
  BY <1>2, <1>4, SumFirst
<1>7. f[First(T)] \in Int
  BY <1>2, <1>3
<1>8. QED
  BY <1>1, <1>5, <1>6, <1>7

\* A sum of zeros is zero.
LEMMA SumOfZeros ==
    ASSUME NEW f, NEW S, IsFiniteSet(S), \A x \in S : f[x] = 0
    PROVE  SumFunctionOnSet(f, S) = 0
<1> DEFINE Q == {T \in SUBSET S : SumFunctionOnSet(f, T) # 0}
<1> SUFFICES ASSUME Q # {} PROVE FALSE
  OBVIOUS
<1>1. PICK T \in Q : \A u \in Q : u \subseteq T => u = T
  <2>1. Q \in SUBSET SUBSET S
    OBVIOUS
  <2> HIDE DEF Q
  <2>2. QED
    BY <2>1, SmallestSubset
<1>2. T # {} /\ IsFiniteSet(T) /\ T \in SUBSET S
  <2>1. T \in SUBSET S /\ SumFunctionOnSet(f, T) # 0
    BY <1>1
  <2>2. SumFunctionOnSet(f, {}) = 0
    BY SumEmpty
  <2>3. QED
    BY <2>1, <2>2, FS_Subset
<1>3. First(T) \in T
  BY <1>2, FirstIsMember
<1>4. PICK u : u = T \ {First(T)}
  OBVIOUS
<1>5. SumFunctionOnSet(f, u) = 0
  BY <1>1, <1>2, <1>3, <1>4
<1>6. SumFunctionOnSet(f, T) = f[First(T)] + SumFunctionOnSet(f, u)
  BY <1>2, <1>4, SumFirst
<1>7. QED
  BY <1>1, <1>2, <1>3, <1>5, <1>6

LEMMA SumWithout ==
    ASSUME NEW f, NEW S, IsFiniteSet(S), \A x \in S : f[x] \in Int, NEW x \in S
    PROVE  SumFunctionOnSet(f, S) = f[x] + SumFunctionOnSet(f, S \ {x})
<1> DEFINE Q == {T \in SUBSET S : \E y \in T :
                    SumFunctionOnSet(f, T) # f[y] + SumFunctionOnSet(f, T \ {y})}
<1>1. SUFFICES ASSUME Q # {} PROVE FALSE
  BY <1>1
<1>2. PICK T \in Q : \A u \in Q : u \subseteq T => u = T
  <2>1. Q \in SUBSET SUBSET S
    OBVIOUS
  <2> HIDE DEF Q
  <2>2. QED
    BY <1>1, <2>1, SmallestSubset
<1>3. PICK y \in T : SumFunctionOnSet(f, T) # f[y] + SumFunctionOnSet(f, T \ {y})
  BY <1>2
<1>4. T \in SUBSET S /\ IsFiniteSet(T) /\ T # {}
  BY <1>2, <1>3, FS_Subset
<1>5. PICK z \in T : z = First(T)
  BY <1>4, FirstIsMember
<1>6. SumFunctionOnSet(f, T) = f[z] + SumFunctionOnSet(f, T \ {z})
  BY <1>4, <1>5, SumFirst
<1>7. y # z
  BY <1>3, <1>6
<1>8. ASSUME NEW u \in SUBSET T, u # T, NEW v \in u
      PROVE  SumFunctionOnSet(f, u) = f[v] + SumFunctionOnSet(f, u \ {v})
  <2>1. u \notin Q /\ u \in SUBSET S
    BY <1>2, <1>4, <1>8
  <2>2. QED
    BY <1>8, <2>1
<1>9. SumFunctionOnSet(f, T \ {z}) = f[y] + SumFunctionOnSet(f, (T \ {z}) \ {y})
  <2>1. T \ {z} \in SUBSET T /\ T \ {z} # T /\ y \in T \ {z}
    BY <1>5, <1>7
  <2>2. QED
    BY <1>8, <2>1
<1>10. SumFunctionOnSet(f, T \ {y}) = f[z] + SumFunctionOnSet(f, (T \ {y}) \ {z})
  <2>1. T \ {y} \in SUBSET T /\ T \ {y} # T /\ z \in T \ {y}
    BY <1>5, <1>7
  <2>2. QED
    BY <1>8, <2>1
<1>11. PICK w : w = (T \ {y}) \ {z} /\ w = (T \ {z}) \ {y}
  <2>1. (T \ {y}) \ {z} = (T \ {z}) \ {y}
    OBVIOUS
  <2>2. QED
    BY <2>1
<1>12. f[y] \in Int /\ f[z] \in Int /\ SumFunctionOnSet(f, w) \in Int
  <2>1. w \in SUBSET S /\ IsFiniteSet(w)
    BY <1>4, <1>11, FS_Subset
  <2>2. QED
    BY <1>4, <2>1, SumOfIntegers
<1>13. /\ SumFunctionOnSet(f, T) = f[z] + (f[y] + SumFunctionOnSet(f, w))
       /\ SumFunctionOnSet(f, T \ {y}) = f[z] + SumFunctionOnSet(f, w)
  BY <1>6, <1>9, <1>10, <1>11
<1>14. f[z] + (f[y] + SumFunctionOnSet(f, w)) = f[y] + (f[z] + SumFunctionOnSet(f, w))
  BY <1>12
<1>15. QED
  BY <1>3, <1>13, <1>14

LEMMA SumWith ==
    ASSUME NEW f, NEW S, IsFiniteSet(S), NEW x, x \notin S, \A y \in S \cup {x} : f[y] \in Int
    PROVE  SumFunctionOnSet(f, S \cup {x}) = f[x] + SumFunctionOnSet(f, S)
<1>1. PICK T : T = S \cup {x}
  OBVIOUS
<1>2. IsFiniteSet(T) /\ x \in T /\ T \ {x} = S
  BY <1>1, FS_AddElement
<1>3. QED
  BY <1>1, <1>2, SumWithout

\* What is summed matters only on the set, and a sum of larger terms is larger.
LEMMA SumOrdered ==
    ASSUME NEW f, NEW g, NEW S, IsFiniteSet(S),
           \A x \in S : f[x] \in Int /\ g[x] \in Int /\ f[x] <= g[x]
    PROVE  SumFunctionOnSet(f, S) <= SumFunctionOnSet(g, S)
<1> DEFINE Q == {T \in SUBSET S : ~ (SumFunctionOnSet(f, T) <= SumFunctionOnSet(g, T))}
<1>1. SUFFICES ASSUME Q # {} PROVE FALSE
  BY <1>1
<1>2. PICK T \in Q : \A u \in Q : u \subseteq T => u = T
  <2>1. Q \in SUBSET SUBSET S
    OBVIOUS
  <2> HIDE DEF Q
  <2>2. QED
    BY <1>1, <2>1, SmallestSubset
<1>3. T # {} /\ IsFiniteSet(T) /\ T \in SUBSET S
  <2>1. T \in SUBSET S /\ ~ (SumFunctionOnSet(f, T) <= SumFunctionOnSet(g, T))
    BY <1>2
  <2>2. SumFunctionOnSet(f, {}) = 0 /\ SumFunctionOnSet(g, {}) = 0
    BY SumEmpty
  <2>3. SumFunctionOnSet(f, {}) <= SumFunctionOnSet(g, {})
    BY <2>2
  <2>4. T # {}
    BY <2>1, <2>3
  <2>5. QED
    BY <2>1, <2>4, FS_Subset
<1>4. PICK x \in T : x = First(T)
  BY <1>3, FirstIsMember
<1>5. PICK u : u = T \ {x}
  OBVIOUS
<1>6. u \in SUBSET S /\ IsFiniteSet(u)
  BY <1>3, <1>5, FS_Subset
<1>7. SumFunctionOnSet(f, u) <= SumFunctionOnSet(g, u)
  BY <1>2, <1>4, <1>5, <1>6
<1>8. SumFunctionOnSet(f, u) \in Int /\ SumFunctionOnSet(g, u) \in Int
  BY <1>6, SumOfIntegers
<1>9. /\ SumFunctionOnSet(f, T) = f[x] + SumFunctionOnSet(f, u)
      /\ SumFunctionOnSet(g, T) = g[x] + SumFunctionOnSet(g, u)
  BY <1>3, <1>4, <1>5, SumFirst
<1>10. f[x] \in Int /\ g[x] \in Int /\ f[x] <= g[x]
  BY <1>3, <1>4
<1>11. SumFunctionOnSet(f, T) <= SumFunctionOnSet(g, T)
  BY <1>7, <1>8, <1>9, <1>10
<1>12. QED
  BY <1>2, <1>11

LEMMA SumEqual ==
    ASSUME NEW f, NEW g, NEW S, IsFiniteSet(S), \A x \in S : f[x] \in Int /\ g[x] = f[x]
    PROVE  SumFunctionOnSet(f, S) = SumFunctionOnSet(g, S)
<1>1. /\ SumFunctionOnSet(f, S) <= SumFunctionOnSet(g, S)
      /\ SumFunctionOnSet(g, S) <= SumFunctionOnSet(f, S)
  BY SumOrdered
<1>2. SumFunctionOnSet(f, S) \in Int /\ SumFunctionOnSet(g, S) \in Int
  BY SumOfIntegers
<1>3. QED
  BY <1>1, <1>2

\* One term is replaced.
LEMMA SumReplaced ==
    ASSUME NEW f, NEW g, NEW S, IsFiniteSet(S), NEW x \in S, g[x] \in Int, f[x] \in Int,
           \A y \in S \ {x} : f[y] \in Int /\ g[y] = f[y]
    PROVE  SumFunctionOnSet(g, S) = SumFunctionOnSet(f, S) - f[x] + g[x]
<1>1. PICK T : T = S \ {x}
  OBVIOUS
<1>2. IsFiniteSet(T)
  BY <1>1, FS_Subset
<1>3. SumFunctionOnSet(f, T) = SumFunctionOnSet(g, T) /\ SumFunctionOnSet(f, T) \in Int
  BY <1>1, <1>2, SumEqual, SumOfIntegers
<1>4. /\ SumFunctionOnSet(f, S) = f[x] + SumFunctionOnSet(f, T)
      /\ SumFunctionOnSet(g, S) = g[x] + SumFunctionOnSet(g, T)
  BY <1>1, SumWithout
<1>5. QED
  BY <1>3, <1>4
=============================================================================
