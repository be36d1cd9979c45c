--------------------------------- MODULE Sums ---------------------------------
(***************************************************************************)
(* What sums over finite sets are, from the definition of the community    *)
(* modules: SumFunctionOnSet(f, S) adds up f[x] for the x of S.  It is a   *)
(* CHOOSE of a function that takes one element at a time; that there is    *)
(* such a function, and what its value is, is shown by looking at a        *)
(* smallest set where it would be otherwise.                               *)
(***************************************************************************)
EXTENDS Integers, FiniteSetsExt, FiniteSetTheorems, TLAPS

(* The element a fold takes next, and what it makes of the rest. *)
First(s) == CHOOSE x \in s : TRUE

SumStep(f, S, g) ==
  [s \in SUBSET S |-> IF s = {} THEN 0 ELSE f[First(s)] + g[s \ {First(s)}]]

Iterates(f, S, g) == g = SumStep(f, S, g)

(* A sum is what the fold's own recursive function says. *)
LEMMA SumByIteration ==
  ASSUME NEW f, NEW S
  PROVE  SumFunctionOnSet(f, S) = (CHOOSE g : Iterates(f, S, g))[S]
BY DEF SumFunctionOnSet, FoldFunctionOnSet, MapThenFoldSet, Iterates, SumStep, First

(* The element that is taken is one of the set. *)
LEMMA FirstIsMember == ASSUME NEW s, s # {} PROVE First(s) \in s
BY DEF First

(* A set of subsets of a finite set has a smallest one. *)
LEMMA SmallestSubset ==
  ASSUME NEW S, IsFiniteSet(S), NEW T, T \subseteq SUBSET S, T # {}
  PROVE  \E s \in T : \A t \in T : t \subseteq s => t = s
<1>1. SUBSET S = FiniteSubsetsOf(S)
  BY FS_FiniteSubsetsOfFinite
<1>2. IsWellFoundedOn(StrictSubsetOrdering(S), SUBSET S)
  BY <1>1, FS_StrictSubsetOrderingWellFounded
<1>3. \E s \in T : \A t \in T : ~(<<t, s>> \in StrictSubsetOrdering(S))
  BY <1>2, WFMin
<1>4. PICK s \in T : \A t \in T : ~(<<t, s>> \in StrictSubsetOrdering(S))
  BY <1>3
<1>5. ASSUME NEW t \in T, t \subseteq s, t # s PROVE FALSE
  <2>1. <<t, s>> \in (SUBSET S) \X (SUBSET S)
    OBVIOUS
  <2>2. <<t, s>> \in StrictSubsetOrdering(S)
    BY <1>5, <2>1 DEF StrictSubsetOrdering
  <2> QED BY <1>4, <2>2
<1> QED
  BY <1>5

(* The fold over a smaller set agrees with the one over a larger. *)
LEMMA IterationsAgree ==
  ASSUME NEW f, NEW S, IsFiniteSet(S), NEW U \in SUBSET S, NEW g, NEW h,
         Iterates(f, S, g), Iterates(f, U, h)
  PROVE  \A s \in SUBSET U : g[s] = h[s]
<1> DEFINE T == {s \in SUBSET U : g[s] # h[s]}
<1> SUFFICES ASSUME T # {} PROVE FALSE
  OBVIOUS
<1>1. T \subseteq SUBSET S
  OBVIOUS
<1>2. PICK s \in T : \A t \in T : t \subseteq s => t = s
  <2> HIDE DEF T
  <2> QED BY <1>1, SmallestSubset
<1>3. /\ g[s] = IF s = {} THEN 0 ELSE f[First(s)] + g[s \ {First(s)}]
      /\ h[s] = IF s = {} THEN 0 ELSE f[First(s)] + h[s \ {First(s)}]
  BY <1>2 DEF Iterates, SumStep
<1>4. s # {}
  BY <1>2, <1>3
<1>5. First(s) \in s
  BY <1>4, FirstIsMember
<1>6. s \ {First(s)} \notin T
  BY <1>2, <1>5
<1> QED
  BY <1>2, <1>3, <1>6

(* The recursive function of the fold exists. *)
LEMMA IterationExists ==
  ASSUME NEW f, NEW S, IsFiniteSet(S)
  PROVE  \E g : Iterates(f, S, g)
<1> DEFINE T == {U \in SUBSET S : ~\E g : Iterates(f, U, g)}
<1> SUFFICES ASSUME T # {} PROVE FALSE
  OBVIOUS
<1>0. T \subseteq SUBSET S
  OBVIOUS
<1>1. PICK U \in T : \A V \in T : V \subseteq U => V = U
  <2> HIDE DEF T
  <2> QED BY <1>0, SmallestSubset
<1> DEFINE h(V) == CHOOSE g : Iterates(f, V, g)
           k(s) == h(s)[s]
           g == [s \in SUBSET U |-> IF s = {} THEN 0 ELSE f[First(s)] + k(s \ {First(s)})]
<1>2. ASSUME NEW V \in SUBSET U, V # U PROVE Iterates(f, V, h(V))
  BY <1>1, <1>2
<1>3. ASSUME NEW s \in SUBSET U, s # U PROVE g[s] = k(s)
  <2>0. Iterates(f, s, h(s))
    BY <1>2, <1>3
  <2>1. h(s)[s] = IF s = {} THEN 0 ELSE f[First(s)] + h(s)[s \ {First(s)}]
    BY <2>0 DEF Iterates, SumStep
  <2>2. CASE s = {}
    BY <2>1, <2>2
  <2>3. CASE s # {}
    <3> DEFINE r == s \ {First(s)}
    <3>1. /\ First(s) \in s
          /\ r \in SUBSET U /\ r # U /\ r \in SUBSET s
      BY <2>3, FirstIsMember
    <3>2. Iterates(f, r, h(r))
      BY <1>2, <3>1
    <3>3. IsFiniteSet(s)
      BY FS_Subset
    <3> HIDE DEF h, r
    <3>4. h(s)[r] = h(r)[r]
      BY <2>0, <3>1, <3>2, <3>3, IterationsAgree
    <3> QED
      BY <2>1, <2>3, <3>4 DEF r
  <2> QED BY <2>2, <2>3
<1>4. Iterates(f, U, g)
  <2>1. ASSUME NEW s \in SUBSET U, s # {}
        PROVE  k(s \ {First(s)}) = g[s \ {First(s)}]
    <3>1. First(s) \in s
      BY <2>1, FirstIsMember
    <3>2. s \ {First(s)} \in SUBSET U /\ s \ {First(s)} # U
      BY <3>1
    <3> HIDE DEF k, g
    <3> QED BY <1>3, <3>2
  <2> HIDE DEF k
  <2>2. g = [s \in SUBSET U |-> IF s = {} THEN 0 ELSE f[First(s)] + g[s \ {First(s)}]]
    BY <2>1
  <2> HIDE DEF g
  <2> QED BY <2>2 DEF Iterates, SumStep
<1> QED
  BY <1>1, <1>4

(* A sum takes out the element that is chosen first. *)
LEMMA SumIteration ==
  ASSUME NEW f, NEW S, IsFiniteSet(S)
  PROVE  SumFunctionOnSet(f, S) =
           IF S = {} THEN 0
           ELSE f[First(S)] + SumFunctionOnSet(f, S \ {First(S)})
<1> DEFINE g == CHOOSE g : Iterates(f, S, g)
<1>1. Iterates(f, S, g)
  BY IterationExists
<1>2. SumFunctionOnSet(f, S) = g[S]
  BY SumByIteration
<1>3. g[S] = IF S = {} THEN 0 ELSE f[First(S)] + g[S \ {First(S)}]
  BY <1>1 DEF Iterates, SumStep
<1> DEFINE R == S \ {First(S)}
           h == CHOOSE h : Iterates(f, R, h)
<1>4. IsFiniteSet(R)
  BY FS_Subset
<1>5. Iterates(f, R, h)
  BY <1>4, IterationExists
<1>6. SumFunctionOnSet(f, R) = h[R]
  BY SumByIteration
<1>7. R \in SUBSET S /\ R \in SUBSET R
  OBVIOUS
<1> HIDE DEF g, h, R
<1>8. g[R] = h[R]
  BY <1>1, <1>5, <1>7, IterationsAgree
<1> QED
  BY <1>2, <1>3, <1>6, <1>8 DEF R

(* The empty sum. *)
LEMMA SumOfNothing ==
  ASSUME NEW f
  PROVE  SumFunctionOnSet(f, {}) = 0
BY SumIteration, FS_EmptySet

(* A sum of natural numbers is one. *)
LEMMA SumIsNat ==
  ASSUME NEW f, NEW S, IsFiniteSet(S), \A x \in S : f[x] \in Nat
  PROVE  SumFunctionOnSet(f, S) \in Nat
<1> DEFINE T == {U \in SUBSET S : SumFunctionOnSet(f, U) \notin Nat}
<1> SUFFICES ASSUME T # {} PROVE FALSE
  OBVIOUS
<1>1. T \subseteq SUBSET S
  OBVIOUS
<1>2. PICK U \in T : \A V \in T : V \subseteq U => V = U
  <2> HIDE DEF T
  <2> QED BY <1>1, SmallestSubset
<1>3. IsFiniteSet(U)
  BY FS_Subset
<1>4. U # {}
  BY SumOfNothing
<1>5. First(U) \in U
  BY <1>4, FirstIsMember
<1>6. SumFunctionOnSet(f, U \ {First(U)}) \in Nat
  BY <1>2, <1>5
<1> QED
  BY <1>3, <1>4, <1>5, <1>6, SumIteration

(* A sum of zeros is zero. *)
LEMMA SumOfZeros ==
  ASSUME NEW f, NEW S, IsFiniteSet(S), \A x \in S : f[x] = 0
  PROVE  SumFunctionOnSet(f, S) = 0
<1> DEFINE T == {U \in SUBSET S : SumFunctionOnSet(f, U) # 0}
<1> SUFFICES ASSUME T # {} PROVE FALSE
  OBVIOUS
<1>1. T \subseteq SUBSET S
  OBVIOUS
<1>2. PICK U \in T : \A V \in T : V \subseteq U => V = U
  <2> HIDE DEF T
  <2> QED BY <1>1, SmallestSubset
<1>3. IsFiniteSet(U)
  BY FS_Subset
<1>4. U # {}
  BY SumOfNothing
<1>5. First(U) \in U
  BY <1>4, FirstIsMember
<1>6. SumFunctionOnSet(f, U \ {First(U)}) = 0
  BY <1>2, <1>5
<1> QED
  BY <1>3, <1>4, <1>5, <1>6, SumIteration

(* Any element may be taken out first. *)
LEMMA SumTakesOut ==
  ASSUME NEW f, NEW S, IsFiniteSet(S), \A x \in S : f[x] \in Nat, NEW x \in S
  PROVE  SumFunctionOnSet(f, S) = f[x] + SumFunctionOnSet(f, S \ {x})
<1> DEFINE Splits(U, y) ==
             SumFunctionOnSet(f, U) = f[y] + SumFunctionOnSet(f, U \ {y})
           T == {U \in SUBSET S : \E y \in U : ~Splits(U, y)}
<1> SUFFICES ASSUME T # {} PROVE FALSE
  OBVIOUS
<1>1. T \subseteq SUBSET S
  OBVIOUS
<1>2. PICK U \in T : \A V \in T : V \subseteq U => V = U
  <2> HIDE DEF T
  <2> QED BY <1>1, SmallestSubset
<1>3. PICK y \in U : ~Splits(U, y)
  BY <1>2
<1> DEFINE c == First(U)
<1>4. IsFiniteSet(U)
  BY FS_Subset
<1>5. c \in U
  BY <1>3, FirstIsMember
<1>6. Splits(U, c)
  BY <1>3, <1>4, SumIteration
<1>7. y # c
  BY <1>3, <1>6
<1> HIDE DEF c
<1>8. Splits(U \ {c}, y) /\ Splits(U \ {y}, c)
  <2>1. /\ U \ {c} \in SUBSET S /\ U \ {c} \subseteq U /\ U \ {c} # U
        /\ U \ {y} \in SUBSET S /\ U \ {y} \subseteq U /\ U \ {y} # U
    BY <1>5
  <2>2. U \ {c} \notin T /\ U \ {y} \notin T
    BY <1>2, <2>1
  <2> HIDE DEF Splits
  <2> QED BY <1>5, <1>7, <2>1, <2>2
<1>9. (U \ {c}) \ {y} = (U \ {y}) \ {c}
  OBVIOUS
<1> DEFINE R == (U \ {c}) \ {y}
<1>10. f[y] \in Nat /\ f[c] \in Nat
  BY <1>5
<1>11. SumFunctionOnSet(f, R) \in Nat
  <2>1. R \in SUBSET S
    OBVIOUS
  <2>2. IsFiniteSet(R)
    BY <2>1, FS_Subset
  <2>3. \A z \in R : f[z] \in Nat
    BY <2>1
  <2> HIDE DEF R
  <2> QED BY <2>2, <2>3, SumIsNat
<1> QED
  BY <1>3, <1>6, <1>8, <1>9, <1>10, <1>11

(* One more element adds its value. *)
LEMMA SumPutsIn ==
  ASSUME NEW f, NEW S, IsFiniteSet(S), NEW x, x \notin S,
         \A y \in S \cup {x} : f[y] \in Nat
  PROVE  SumFunctionOnSet(f, S \cup {x}) = f[x] + SumFunctionOnSet(f, S)
<1>1. IsFiniteSet(S \cup {x})
  BY FS_AddElement
<1>2. (S \cup {x}) \ {x} = S
  OBVIOUS
<1>3. x \in S \cup {x}
  OBVIOUS
<1> DEFINE T == S \cup {x}
<1> HIDE DEF T
<1>4. SumFunctionOnSet(f, T) = f[x] + SumFunctionOnSet(f, T \ {x})
  BY <1>1, <1>3, SumTakesOut DEF T
<1> QED
  BY <1>2, <1>4 DEF T

(* Only the values on the set matter. *)
LEMMA SumOfSame ==
  ASSUME NEW f, NEW g, NEW S, IsFiniteSet(S), \A x \in S : f[x] = g[x]
  PROVE  SumFunctionOnSet(f, S) = SumFunctionOnSet(g, S)
<1> DEFINE T == {U \in SUBSET S : SumFunctionOnSet(f, U) # SumFunctionOnSet(g, U)}
<1> SUFFICES ASSUME T # {} PROVE FALSE
  OBVIOUS
<1>1. T \subseteq SUBSET S
  OBVIOUS
<1>2. PICK U \in T : \A V \in T : V \subseteq U => V = U
  <2> HIDE DEF T
  <2> QED BY <1>1, SmallestSubset
<1>3. IsFiniteSet(U)
  BY FS_Subset
<1>4. U # {}
  BY SumOfNothing
<1>5. First(U) \in U
  BY <1>4, FirstIsMember
<1>6. SumFunctionOnSet(f, U \ {First(U)}) = SumFunctionOnSet(g, U \ {First(U)})
  BY <1>2, <1>5
<1> QED
  BY <1>2, <1>3, <1>4, <1>5, <1>6, SumIteration

(* A part is not more than the sum. *)
LEMMA SumAtLeastPart ==
  ASSUME NEW f, NEW S, IsFiniteSet(S), \A x \in S : f[x] \in Nat, NEW x \in S
  PROVE  f[x] <= SumFunctionOnSet(f, S)
<1>1. SumFunctionOnSet(f, S) = f[x] + SumFunctionOnSet(f, S \ {x})
  BY SumTakesOut
<1>2. IsFiniteSet(S \ {x})
  BY FS_Subset
<1>3. SumFunctionOnSet(f, S \ {x}) \in Nat
  BY <1>2, SumIsNat
<1> QED
  BY <1>1, <1>3

(* One value that changes changes the sum by as much. *)
LEMMA SumOfOneChange ==
  ASSUME NEW f, NEW g, NEW S, IsFiniteSet(S), NEW x \in S,
         \A y \in S : f[y] \in Nat /\ g[y] \in Nat,
         \A y \in S \ {x} : f[y] = g[y]
  PROVE  SumFunctionOnSet(g, S) = SumFunctionOnSet(f, S) - f[x] + g[x]
<1>1. /\ SumFunctionOnSet(f, S) = f[x] + SumFunctionOnSet(f, S \ {x})
      /\ SumFunctionOnSet(g, S) = g[x] + SumFunctionOnSet(g, S \ {x})
  BY SumTakesOut
<1>2. IsFiniteSet(S \ {x})
  BY FS_Subset
<1>3. SumFunctionOnSet(f, S \ {x}) = SumFunctionOnSet(g, S \ {x})
  BY <1>2, SumOfSame
<1>4. SumFunctionOnSet(f, S \ {x}) \in Nat
  BY <1>2, SumIsNat
<1> QED
  BY <1>1, <1>3, <1>4

(* Smaller values have the smaller sum. *)
LEMMA SumOfAtMost ==
  ASSUME NEW f, NEW g, NEW S, IsFiniteSet(S),
         \A x \in S : f[x] \in Nat /\ g[x] \in Nat /\ f[x] <= g[x]
  PROVE  SumFunctionOnSet(f, S) <= SumFunctionOnSet(g, S)
<1> DEFINE T == {U \in SUBSET S : ~(SumFunctionOnSet(f, U) <= SumFunctionOnSet(g, U))}
<1> SUFFICES ASSUME T # {} PROVE FALSE
  OBVIOUS
<1>1. T \subseteq SUBSET S
  OBVIOUS
<1>2. PICK U \in T : \A V \in T : V \subseteq U => V = U
  <2> HIDE DEF T
  <2> QED BY <1>1, SmallestSubset
<1>3. IsFiniteSet(U)
  BY FS_Subset
<1>4. U # {}
  BY SumOfNothing
<1>5. First(U) \in U
  BY <1>4, FirstIsMember
<1> DEFINE R == U \ {First(U)}
<1>6. SumFunctionOnSet(f, R) <= SumFunctionOnSet(g, R)
  BY <1>2, <1>5
<1>7. SumFunctionOnSet(f, R) \in Nat /\ SumFunctionOnSet(g, R) \in Nat
  <2>1. IsFiniteSet(R) /\ \A y \in R : f[y] \in Nat /\ g[y] \in Nat
    BY FS_Subset
  <2> HIDE DEF R
  <2> QED BY <2>1, SumIsNat
<1>8. /\ SumFunctionOnSet(f, U) = f[First(U)] + SumFunctionOnSet(f, R)
      /\ SumFunctionOnSet(g, U) = g[First(U)] + SumFunctionOnSet(g, R)
  BY <1>3, <1>4, SumIteration
<1> HIDE DEF R
<1> QED
  BY <1>2, <1>5, <1>6, <1>7, <1>8

(* Summed along a function that takes no value twice, or by its values, the  *)
(* sum is the same.                                                          *)
LEMMA SumReindexed ==
  ASSUME NEW S, IsFiniteSet(S), NEW T, NEW f \in Bijection(S, T), NEW g, NEW v,
         \A t \in T : v[t] \in Nat, \A x \in S : g[x] = v[f[x]]
  PROVE  SumFunctionOnSet(g, S) = SumFunctionOnSet(v, T)
<1>0. /\ f \in [S -> T] /\ {f[x] : x \in S} = T
      /\ \A x, y \in S : f[x] = f[y] => x = y
  BY DEF Bijection, Injection, Surjection, IsInjective
<1> DEFINE Image(U) == {f[x] : x \in U}
           Bad == {U \in SUBSET S : SumFunctionOnSet(g, U) # SumFunctionOnSet(v, Image(U))}
<1> SUFFICES ASSUME Bad # {} PROVE FALSE
  <2>1. SUBSET S # {} /\ S \in SUBSET S /\ Image(S) = T
    BY <1>0
  <2>2. Bad = {} => SumFunctionOnSet(g, S) = SumFunctionOnSet(v, Image(S))
    BY <2>1
  <2> QED
    BY <2>1, <2>2
<1>1. Bad \subseteq SUBSET S
  OBVIOUS
<1>2. PICK U \in Bad : \A V \in Bad : V \subseteq U => V = U
  <2> HIDE DEF Bad
  <2> QED BY <1>1, SmallestSubset
<1>3. U \in SUBSET S /\ SumFunctionOnSet(g, U) # SumFunctionOnSet(v, Image(U))
  OBVIOUS
<1>4. U # {}
  <2>1. ASSUME U = {} PROVE FALSE
    <3>1. Image(U) = {}
      BY <2>1
    <3> HIDE DEF Image
    <3> QED
      BY <2>1, <3>1, <1>3, SumOfNothing
  <2> QED BY <2>1
<1>5. PICK x \in U : TRUE
  BY <1>4
<1>6. U \ {x} \in SUBSET S /\ U \ {x} \notin Bad
  BY <1>2, <1>3
<1>7. SumFunctionOnSet(g, U \ {x}) = SumFunctionOnSet(v, Image(U \ {x}))
  BY <1>6
<1>8. Image(U \ {x}) = Image(U) \ {f[x]} /\ f[x] \in Image(U)
  BY <1>0, <1>3
<1>9. g[x] = v[f[x]] /\ \A y \in U : g[y] \in Nat
  BY <1>0, <1>3
<1>10. IsFiniteSet(U)
  BY <1>3, FS_Subset
<1>11. IsFiniteSet(Image(U))
  <2> DEFINE h == [y \in U |-> f[y]]
  <2>1. h \in Surjection(U, Image(U))
    BY <1>0, <1>3 DEF Surjection
  <2> HIDE DEF h, Image
  <2> QED
    BY <2>1, <1>10, FS_Surjection
<1>12. \A t \in Image(U) : v[t] \in Nat
  BY <1>0, <1>3
<1> HIDE DEF Image, Bad
<1>13. SumFunctionOnSet(g, U) = g[x] + SumFunctionOnSet(g, U \ {x})
  BY <1>9, <1>10, SumTakesOut
<1>14. SumFunctionOnSet(v, Image(U)) = v[f[x]] + SumFunctionOnSet(v, Image(U) \ {f[x]})
  BY <1>8, <1>11, <1>12, SumTakesOut
<1> QED
  BY <1>3, <1>7, <1>8, <1>9, <1>13, <1>14

(* The hypotheses of SumReindexed under one name.                            *)
Reindexes(f, S, T, g, v) ==
  /\ IsFiniteSet(S) /\ f \in Bijection(S, T)
  /\ \A t \in T : v[t] \in Nat
  /\ \A x \in S : g[x] = v[f[x]]

LEMMA SumsAlike ==
  ASSUME NEW S, NEW T, NEW f, NEW g, NEW v, Reindexes(f, S, T, g, v)
  PROVE  SumFunctionOnSet(g, S) = SumFunctionOnSet(v, T)
  BY SumReindexed DEF Reindexes

(* The hypotheses of SumOfOneChange under one name.                          *)
ChangesAt(f, g, S, x) ==
  /\ IsFiniteSet(S) /\ x \in S
  /\ \A y \in S : f[y] \in Nat /\ g[y] \in Nat
  /\ \A y \in S \ {x} : f[y] = g[y]

LEMMA SumChanges ==
  ASSUME NEW f, NEW g, NEW S, NEW x, ChangesAt(f, g, S, x)
  PROVE  SumFunctionOnSet(g, S) = SumFunctionOnSet(f, S) - f[x] + g[x]
  BY SumOfOneChange DEF ChangesAt
=============================================================================
