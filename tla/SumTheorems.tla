---------------------------- MODULE SumTheorems ----------------------------
(***************************************************************************)
(* The sum of a function over a finite set (SumFunctionOnSet of Functions) *)
(* and how it changes with the set and with the function.                  *)
(***************************************************************************)
EXTENDS Integers, FiniteSets, Functions, FiniteSetTheorems, WellFoundedInduction, TLAPS

-----------------------------------------------------------------------------
(* The recursion behind the fold: one element is chosen and added to the   *)
(* sum of the others.                                                      *)
SumElement(V) == CHOOSE x \in V : TRUE
SumOthers(V) == V \ {SumElement(V)}

IsPartialSums(g, F, S) == g = [V \in SUBSET S |-> IF V = {} THEN 0 ELSE F[SumElement(V)] + g[SumOthers(V)]]
PartialSums(F, S) == CHOOSE g : IsPartialSums(g, F, S)

LEMMA SumIsFold == \A F, S : SumFunctionOnSet(F, S) = PartialSums(F, S)[S]
  BY DEF SumFunctionOnSet, FoldFunctionOnSet, MapThenFoldSet,
         PartialSums, IsPartialSums, SumElement, SumOthers

\* Any family of subsets of a finite set has a member without a smaller one:
\* induction on subsets, as a statement about sets.
LEMMA SmallestMember ==
    ASSUME NEW S, IsFiniteSet(S), NEW T, T \subseteq SUBSET S, T # {}
    PROVE  \E V \in T : \A W \in T : W \subseteq V => W = V
PROOF
<1>1. FiniteSubsetsOf(S) = SUBSET S
  BY FS_FiniteSubsetsOfFinite
<1>2. PICK V \in T : \A W \in T : <<W, V>> \notin StrictSubsetOrdering(S)
  BY <1>1, FS_StrictSubsetOrderingWellFounded, WFMin
<1>3. \A W \in T : W \subseteq V => W = V
  BY <1>2 DEF StrictSubsetOrdering
<1> QED
  BY <1>3

LEMMA RestSmaller ==
    ASSUME NEW V, V # {}
    PROVE  SumElement(V) \in V /\ SumOthers(V) \subseteq V /\ SumOthers(V) # V
  BY DEF SumElement, SumOthers

\* The recursion has one solution at most, also between two sets.
LEMMA SumsAgree ==
    ASSUME NEW F, NEW S, NEW U, IsFiniteSet(S), NEW g, NEW h, IsPartialSums(g, F, S), IsPartialSums(h, F, U),
           NEW V, V \subseteq S, V \subseteq U
    PROVE  g[V] = h[V]
PROOF
<1> DEFINE T == {W \in SUBSET V : g[W] # h[W]}
<1>1. SUFFICES T = {}
  OBVIOUS
<1>2. SUFFICES ASSUME T # {} PROVE FALSE
  OBVIOUS
<1>3. IsFiniteSet(V)
  BY FS_Subset
<1>4. PICK W \in T : \A X \in T : X \subseteq W => X = W
  <2>1. T \subseteq SUBSET V
    OBVIOUS
  <2> HIDE DEF T
  <2> QED
    BY <1>2, <1>3, <2>1, SmallestMember
<1>5. W \subseteq V /\ g[W] # h[W]
  BY <1>4
<1>6. /\ g[W] = IF W = {} THEN 0 ELSE F[SumElement(W)] + g[SumOthers(W)]
      /\ h[W] = IF W = {} THEN 0 ELSE F[SumElement(W)] + h[SumOthers(W)]
  <2>1. W \in SUBSET S /\ W \in SUBSET U
    BY <1>5
  <2>2. g[W] = IF W = {} THEN 0 ELSE F[SumElement(W)] + g[SumOthers(W)]
    BY <2>1 DEF IsPartialSums
  <2>3. h[W] = IF W = {} THEN 0 ELSE F[SumElement(W)] + h[SumOthers(W)]
    BY <2>1 DEF IsPartialSums
  <2> QED
    BY <2>2, <2>3
<1>7. W # {}
  BY <1>5, <1>6
<1>8. SumElement(W) \in V /\ SumOthers(W) \subseteq W /\ SumOthers(W) # W
  BY <1>5, <1>7, RestSmaller
<1>9. g[SumOthers(W)] = h[SumOthers(W)]
  BY <1>4, <1>5, <1>8
<1> QED
  BY <1>5, <1>6, <1>7, <1>8, <1>9

\* And it has one: built from the solutions of the smaller sets.
LEMMA SumsExist ==
    ASSUME NEW F, NEW S, IsFiniteSet(S)
    PROVE  IsPartialSums(PartialSums(F, S), F, S)
PROOF
<1> DEFINE T == {V \in SUBSET S : ~ \E g : IsPartialSums(g, F, V)}
<1>1. SUFFICES T = {}
  <2>1. \E g : IsPartialSums(g, F, S)
    BY <1>1
  <2> QED
    BY <2>1 DEF PartialSums
<1>2. SUFFICES ASSUME T # {} PROVE FALSE
  OBVIOUS
<1>3. PICK V \in T : \A W \in T : W \subseteq V => W = V
  <2>1. T \subseteq SUBSET S
    OBVIOUS
  <2> HIDE DEF T
  <2> QED
    BY <1>2, <2>1, SmallestMember
<1>4. V \subseteq S /\ IsFiniteSet(V) /\ ~ \E g : IsPartialSums(g, F, V)
  BY <1>3, FS_Subset
<1>5. ASSUME NEW W, W \subseteq V, W # V
      PROVE  IsPartialSums(PartialSums(F, W), F, W)
  <2>1. \E g : IsPartialSums(g, F, W)
    BY <1>3, <1>4, <1>5
  <2> QED
    BY <2>1 DEF PartialSums
<1> DEFINE h == [W \in SUBSET V |-> IF W = {} THEN 0 ELSE F[SumElement(W)] + PartialSums(F, SumOthers(W))[SumOthers(W)]]
<1>6. ASSUME NEW W \in SUBSET V, W # {}
      PROVE  h[SumOthers(W)] = PartialSums(F, SumOthers(W))[SumOthers(W)]
  <2> DEFINE X == SumOthers(W)
  <2>1. X \subseteq V /\ X # V /\ IsFiniteSet(X)
    BY <1>4, <1>6, RestSmaller, FS_Subset
  <2>2. IsPartialSums(PartialSums(F, X), F, X)
    BY <1>5, <2>1
  <2>3. PartialSums(F, X)[X] = IF X = {} THEN 0 ELSE F[SumElement(X)] + PartialSums(F, X)[SumOthers(X)]
    <3> HIDE DEF X
    <3>1. X \in SUBSET X
      OBVIOUS
    <3> QED
      BY <2>2, <3>1 DEF IsPartialSums
  <2>4. h[X] = IF X = {} THEN 0 ELSE F[SumElement(X)] + PartialSums(F, SumOthers(X))[SumOthers(X)]
    BY <2>1
  <2>5. CASE X = {}
    BY <2>3, <2>4, <2>5
  <2>6. CASE X # {}
    <3>1. SumOthers(X) \subseteq X /\ SumOthers(X) # V /\ SumOthers(X) \subseteq V /\ IsFiniteSet(SumOthers(X))
      BY <2>1, <2>6, RestSmaller, FS_Subset
    <3>2. IsPartialSums(PartialSums(F, SumOthers(X)), F, SumOthers(X))
      BY <1>5, <3>1
    <3>3. PartialSums(F, X)[SumOthers(X)] = PartialSums(F, SumOthers(X))[SumOthers(X)]
      BY <2>1, <2>2, <3>1, <3>2, SumsAgree
    <3> QED
      BY <2>3, <2>4, <2>6, <3>3
  <2> QED
    BY <2>5, <2>6
<1>7. h = [W \in SUBSET V |-> IF W = {} THEN 0 ELSE F[SumElement(W)] + h[SumOthers(W)]]
  <2>1. \A W \in SUBSET V : h[W] = IF W = {} THEN 0 ELSE F[SumElement(W)] + h[SumOthers(W)]
    BY <1>6
  <2>2. h = [W \in SUBSET V |-> h[W]]
    OBVIOUS
  <2> HIDE DEF h
  <2> QED
    BY <2>1, <2>2
<1>8. IsPartialSums(h, F, V)
  <2> HIDE DEF h
  <2> QED
    BY <1>7 DEF IsPartialSums
<1> QED
  BY <1>4, <1>8

-----------------------------------------------------------------------------
(* What a sum is.                                                          *)

LEMMA SumEmpty == \A F : SumFunctionOnSet(F, {}) = 0
PROOF
<1> TAKE F
<1>1. IsPartialSums(PartialSums(F, {}), F, {})
  BY SumsExist, FS_EmptySet
<1>2. {} \in SUBSET {}
  OBVIOUS
<1>3. PartialSums(F, {})[{}] = 0
  BY <1>1, <1>2 DEF IsPartialSums
<1> QED
  BY <1>3, SumIsFold

LEMMA SumUnfold ==
    ASSUME NEW F, NEW S, IsFiniteSet(S), S # {}
    PROVE  SumFunctionOnSet(F, S) = F[SumElement(S)] + SumFunctionOnSet(F, SumOthers(S))
PROOF
<1>1. IsPartialSums(PartialSums(F, S), F, S)
  BY SumsExist
<1>2. IsFiniteSet(SumOthers(S)) /\ SumOthers(S) \subseteq S
  BY RestSmaller, FS_Subset
<1>3. IsPartialSums(PartialSums(F, SumOthers(S)), F, SumOthers(S))
  BY <1>2, SumsExist
<1>4. PartialSums(F, S)[SumOthers(S)] = PartialSums(F, SumOthers(S))[SumOthers(S)]
  <2> DEFINE X == SumOthers(S)
             g == PartialSums(F, S)
             h == PartialSums(F, X)
  <2>1. X \subseteq S /\ X \subseteq X
    BY <1>2
  <2>2. IsPartialSums(g, F, S) /\ IsPartialSums(h, F, X)
    BY <1>1, <1>3
  <2> HIDE DEF X, g, h
  <2>3. g[X] = h[X]
    BY <2>1, <2>2, SumsAgree
  <2> QED
    BY <2>3 DEF X, g, h
<1>5. S \in SUBSET S
  OBVIOUS
<1>6. PartialSums(F, S)[S] = F[SumElement(S)] + PartialSums(F, S)[SumOthers(S)]
  BY <1>1, <1>5 DEF IsPartialSums
<1> QED
  BY <1>4, <1>6, SumIsFold

\* Sums of integers are integers, and those of naturals naturals.
LEMMA SumInt ==
    ASSUME NEW F, NEW S, IsFiniteSet(S), \A x \in S : F[x] \in Int
    PROVE  SumFunctionOnSet(F, S) \in Int
PROOF
<1> DEFINE T == {V \in SUBSET S : SumFunctionOnSet(F, V) \notin Int}
<1>1. SUFFICES T = {}
  OBVIOUS
<1>2. SUFFICES ASSUME T # {} PROVE FALSE
  OBVIOUS
<1>3. PICK V \in T : \A W \in T : W \subseteq V => W = V
  <2>1. T \subseteq SUBSET S
    OBVIOUS
  <2> HIDE DEF T
  <2> QED
    BY <1>2, <2>1, SmallestMember
<1>4. V \subseteq S /\ IsFiniteSet(V) /\ SumFunctionOnSet(F, V) \notin Int
  BY <1>3, FS_Subset
<1>5. V # {}
  BY <1>4, SumEmpty
<1>6. SumElement(V) \in V /\ SumOthers(V) \subseteq V /\ SumOthers(V) # V
  BY <1>5, RestSmaller
<1>7. SumFunctionOnSet(F, SumOthers(V)) \in Int
  BY <1>3, <1>4, <1>6
<1>8. SumFunctionOnSet(F, V) = F[SumElement(V)] + SumFunctionOnSet(F, SumOthers(V))
  BY <1>4, <1>5, SumUnfold
<1> QED
  BY <1>4, <1>6, <1>7, <1>8

LEMMA SumNat ==
    ASSUME NEW F, NEW S, IsFiniteSet(S), \A x \in S : F[x] \in Nat
    PROVE  SumFunctionOnSet(F, S) \in Nat
PROOF
<1> DEFINE T == {V \in SUBSET S : SumFunctionOnSet(F, V) \notin Nat}
<1>1. SUFFICES T = {}
  OBVIOUS
<1>2. SUFFICES ASSUME T # {} PROVE FALSE
  OBVIOUS
<1>3. PICK V \in T : \A W \in T : W \subseteq V => W = V
  <2>1. T \subseteq SUBSET S
    OBVIOUS
  <2> HIDE DEF T
  <2> QED
    BY <1>2, <2>1, SmallestMember
<1>4. V \subseteq S /\ IsFiniteSet(V) /\ SumFunctionOnSet(F, V) \notin Nat
  BY <1>3, FS_Subset
<1>5. V # {}
  BY <1>4, SumEmpty
<1>6. SumElement(V) \in V /\ SumOthers(V) \subseteq V /\ SumOthers(V) # V
  BY <1>5, RestSmaller
<1>7. SumFunctionOnSet(F, SumOthers(V)) \in Nat
  BY <1>3, <1>4, <1>6
<1>8. SumFunctionOnSet(F, V) = F[SumElement(V)] + SumFunctionOnSet(F, SumOthers(V))
  BY <1>4, <1>5, SumUnfold
<1> QED
  BY <1>4, <1>6, <1>7, <1>8

-----------------------------------------------------------------------------
(* How a sum changes.                                                      *)

\* Functions that agree on the set have the same sum.
LEMMA SumSame ==
    ASSUME NEW F, NEW G, NEW S, IsFiniteSet(S), \A x \in S : F[x] = G[x]
    PROVE  SumFunctionOnSet(F, S) = SumFunctionOnSet(G, S)
PROOF
<1> DEFINE T == {V \in SUBSET S : SumFunctionOnSet(F, V) # SumFunctionOnSet(G, V)}
<1>1. SUFFICES ASSUME T # {} PROVE FALSE
  OBVIOUS
<1>2. PICK V \in T : \A W \in T : W \subseteq V => W = V
  <2>1. T \subseteq SUBSET S
    OBVIOUS
  <2> HIDE DEF T
  <2> QED
    BY <1>1, <2>1, SmallestMember
<1>3. V \subseteq S /\ IsFiniteSet(V) /\ SumFunctionOnSet(F, V) # SumFunctionOnSet(G, V)
  BY <1>2, FS_Subset
<1>4. V # {}
  BY <1>3, SumEmpty
<1>5. SumElement(V) \in V /\ SumFunctionOnSet(F, SumOthers(V)) = SumFunctionOnSet(G, SumOthers(V))
  BY <1>2, <1>3, <1>4, RestSmaller
<1>6. /\ SumFunctionOnSet(F, V) = F[SumElement(V)] + SumFunctionOnSet(F, SumOthers(V))
      /\ SumFunctionOnSet(G, V) = G[SumElement(V)] + SumFunctionOnSet(G, SumOthers(V))
  BY <1>3, <1>4, SumUnfold
<1> QED
  BY <1>3, <1>5, <1>6

LEMMA SumZero ==
    ASSUME NEW F, NEW S, IsFiniteSet(S), \A x \in S : F[x] = 0
    PROVE  SumFunctionOnSet(F, S) = 0
PROOF
<1> DEFINE T == {V \in SUBSET S : SumFunctionOnSet(F, V) # 0}
<1>1. SUFFICES ASSUME T # {} PROVE FALSE
  OBVIOUS
<1>2. PICK V \in T : \A W \in T : W \subseteq V => W = V
  <2>1. T \subseteq SUBSET S
    OBVIOUS
  <2> HIDE DEF T
  <2> QED
    BY <1>1, <2>1, SmallestMember
<1>3. V \subseteq S /\ IsFiniteSet(V) /\ SumFunctionOnSet(F, V) # 0
  BY <1>2, FS_Subset
<1>4. V # {}
  BY <1>3, SumEmpty
<1>5. SumElement(V) \in V /\ SumFunctionOnSet(F, SumOthers(V)) = 0
  BY <1>2, <1>3, <1>4, RestSmaller
<1>6. SumFunctionOnSet(F, V) = F[SumElement(V)] + SumFunctionOnSet(F, SumOthers(V))
  BY <1>3, <1>4, SumUnfold
<1> QED
  BY <1>3, <1>5, <1>6

\* A sum over a finite set does not depend on the order of the fold: any element
\* may be taken out, not only the chosen one.
THEOREM SumRemove ==
    ASSUME NEW F, NEW S, IsFiniteSet(S), \A x \in S : F[x] \in Int, NEW y \in S
    PROVE  SumFunctionOnSet(F, S) = F[y] + SumFunctionOnSet(F, S \ {y})
PROOF
<1> DEFINE Splits(V) == \A x \in V : SumFunctionOnSet(F, V) = F[x] + SumFunctionOnSet(F, V \ {x})
           T == {V \in SUBSET S : ~Splits(V)}
<1>1. SUFFICES T = {}
  <2>1. S \in SUBSET S
    OBVIOUS
  <2> QED
    BY <1>1, <2>1
<1>2. SUFFICES ASSUME T # {} PROVE FALSE
  OBVIOUS
<1>3. PICK V \in T : \A W \in T : W \subseteq V => W = V
  <2>1. T \subseteq SUBSET S
    OBVIOUS
  <2> HIDE DEF T
  <2> QED
    BY <1>2, <2>1, SmallestMember
<1>4. V \subseteq S /\ IsFiniteSet(V)
  BY <1>3, FS_Subset
<1>5. PICK x \in V : SumFunctionOnSet(F, V) # F[x] + SumFunctionOnSet(F, V \ {x})
  BY <1>3
<1> DEFINE c == SumElement(V)
           Less == V \ {x, c}
<1>6. c \in V /\ SumFunctionOnSet(F, V) = F[c] + SumFunctionOnSet(F, V \ {c})
  BY <1>4, <1>5, SumUnfold, RestSmaller DEF SumOthers
<1>7. x # c
  BY <1>5, <1>6
<1>8. SumFunctionOnSet(F, V \ {c}) = F[x] + SumFunctionOnSet(F, Less)
  <2>1. V \ {c} \notin T
    BY <1>3, <1>6
  <2>2. V \ {c} \in SUBSET S /\ x \in V \ {c} /\ (V \ {c}) \ {x} = Less
    BY <1>4, <1>5, <1>7
  <2> QED
    BY <2>1, <2>2
<1>9. SumFunctionOnSet(F, V \ {x}) = F[c] + SumFunctionOnSet(F, Less)
  <2>1. V \ {x} \notin T
    BY <1>3, <1>5
  <2>2. V \ {x} \in SUBSET S /\ c \in V \ {x} /\ (V \ {x}) \ {c} = Less
    BY <1>4, <1>6, <1>7
  <2> QED
    BY <2>1, <2>2
<1>10. SumFunctionOnSet(F, Less) \in Int /\ F[x] \in Int /\ F[c] \in Int
  <2>1. IsFiniteSet(Less) /\ \A z \in Less : F[z] \in Int
    BY <1>4, FS_Subset
  <2> QED
    BY <1>4, <1>5, <1>6, <2>1, SumInt
<1> QED
  BY <1>5, <1>6, <1>8, <1>9, <1>10

\* An element joins.
LEMMA SumJoin ==
    ASSUME NEW F, NEW S, IsFiniteSet(S), NEW y, y \notin S, \A x \in S \cup {y} : F[x] \in Int
    PROVE  SumFunctionOnSet(F, S \cup {y}) = SumFunctionOnSet(F, S) + F[y]
PROOF
<1>1. IsFiniteSet(S \cup {y}) /\ (S \cup {y}) \ {y} = S
  BY FS_AddElement
<1>2. SumFunctionOnSet(F, S \cup {y}) = F[y] + SumFunctionOnSet(F, S)
  BY <1>1, SumRemove
<1>3. SumFunctionOnSet(F, S) \in Int /\ F[y] \in Int
  BY SumInt
<1> QED
  BY <1>2, <1>3

\* One value changes.
LEMMA SumChange ==
    ASSUME NEW F, NEW G, NEW S, IsFiniteSet(S), \A x \in S : F[x] \in Int /\ G[x] \in Int,
           NEW y \in S, \A x \in S \ {y} : G[x] = F[x]
    PROVE  SumFunctionOnSet(G, S) = SumFunctionOnSet(F, S) - F[y] + G[y]
PROOF
<1>1. IsFiniteSet(S \ {y})
  BY FS_RemoveElement
<1>2. SumFunctionOnSet(F, S \ {y}) = SumFunctionOnSet(G, S \ {y})
  BY <1>1, SumSame
<1>3. SumFunctionOnSet(F, S \ {y}) \in Int /\ F[y] \in Int /\ G[y] \in Int
  BY <1>1, SumInt
<1>4. /\ SumFunctionOnSet(F, S) = F[y] + SumFunctionOnSet(F, S \ {y})
      /\ SumFunctionOnSet(G, S) = G[y] + SumFunctionOnSet(G, S \ {y})
  BY SumRemove
<1> QED
  BY <1>2, <1>3, <1>4

\* The sum of a function is the sum over its domain of any function with its values.
LEMMA SumOn ==
    ASSUME NEW F, NEW S, IsFiniteSet(S)
    PROVE  SumFunction([x \in S |-> F[x]]) = SumFunctionOnSet(F, S)
PROOF
<1> DEFINE G == [x \in S |-> F[x]]
<1>1. SumFunctionOnSet(G, S) = SumFunctionOnSet(F, S)
  <2>1. \A x \in S : G[x] = F[x]
    OBVIOUS
  <2> HIDE DEF G
  <2> QED
    BY <2>1, SumSame
<1>2. DOMAIN G = S
  OBVIOUS
<1> HIDE DEF G
<1>3. SumFunction(G) = SumFunctionOnSet(F, S)
  BY <1>1, <1>2 DEF SumFunction
<1> QED
  BY <1>3 DEF G

\* Sets without common elements.
LEMMA SumUnion ==
    ASSUME NEW F, NEW S, NEW U, IsFiniteSet(S), IsFiniteSet(U), S \cap U = {}, \A x \in S \cup U : F[x] \in Int
    PROVE  SumFunctionOnSet(F, S \cup U) = SumFunctionOnSet(F, S) + SumFunctionOnSet(F, U)
PROOF
<1> DEFINE Adds(V) == SumFunctionOnSet(F, S \cup V) = SumFunctionOnSet(F, S) + SumFunctionOnSet(F, V)
           T == {V \in SUBSET U : ~Adds(V)}
<1>1. SUFFICES ASSUME T # {} PROVE FALSE
  OBVIOUS
<1>2. PICK V \in T : \A W \in T : W \subseteq V => W = V
  <2>1. T \subseteq SUBSET U
    OBVIOUS
  <2> HIDE DEF T
  <2> QED
    BY <1>1, <2>1, SmallestMember
<1>3. V \subseteq U /\ IsFiniteSet(V) /\ ~Adds(V)
  BY <1>2, FS_Subset
<1>4. SumFunctionOnSet(F, S) \in Int
  BY SumInt
<1>5. V # {}
  <2> SUFFICES ASSUME V = {} PROVE FALSE
    OBVIOUS
  <2>1. S \cup V = S /\ SumFunctionOnSet(F, V) = 0
    BY SumEmpty
  <2> QED
    BY <1>3, <1>4, <2>1
<1>6. PICK y \in V : TRUE
  BY <1>5
<1> DEFINE X == V \ {y}
<1>7. Adds(X) /\ IsFiniteSet(X) /\ X \subseteq U
  BY <1>2, <1>3, <1>6, FS_Subset
<1>8. S \cup V = (S \cup X) \cup {y} /\ y \notin S \cup X /\ IsFiniteSet(S \cup X)
  BY <1>3, <1>6, <1>7, FS_Union
<1>9. V = X \cup {y} /\ y \notin X
  BY <1>6
<1>10. F[y] \in Int /\ SumFunctionOnSet(F, X) \in Int
  BY <1>3, <1>6, <1>7, SumInt
<1>11. SumFunctionOnSet(F, V) = SumFunctionOnSet(F, X) + F[y]
  <2>1. \A x \in X \cup {y} : F[x] \in Int
    BY <1>3, <1>9
  <2> HIDE DEF X
  <2> QED
    BY <1>7, <1>9, <2>1, SumJoin
<1>12. SumFunctionOnSet(F, S \cup V) = SumFunctionOnSet(F, S \cup X) + F[y]
  <2> DEFINE Y == S \cup X
  <2>1. \A x \in Y \cup {y} : F[x] \in Int
    BY <1>3, <1>6, <1>7
  <2>2. IsFiniteSet(Y) /\ y \notin Y /\ S \cup V = Y \cup {y}
    BY <1>8
  <2> HIDE DEF Y
  <2>3. SumFunctionOnSet(F, S \cup V) = SumFunctionOnSet(F, Y) + F[y]
    BY <2>1, <2>2, SumJoin
  <2> QED
    BY <2>3 DEF Y
<1> QED
  BY <1>3, <1>4, <1>7, <1>10, <1>11, <1>12

LEMMA ImageFinite ==
    ASSUME NEW f, NEW S, IsFiniteSet(S)
    PROVE  IsFiniteSet({f[x] : x \in S})
PROOF
<1> DEFINE g == [x \in S |-> f[x]]
           T == {f[x] : x \in S}
<1>1. g \in [S -> T] /\ \A t \in T : \E x \in S : g[x] = t
  OBVIOUS
<1> HIDE DEF g, T
<1>2. g \in Surjection(S, T)
  BY <1>1 DEF Surjection
<1>3. IsFiniteSet(T)
  BY <1>2, FS_Surjection
<1> QED
  BY <1>3 DEF T

\* A set renamed by a function that keeps elements apart.
LEMMA SumImage ==
    ASSUME NEW F, NEW G, NEW f, NEW S, IsFiniteSet(S), \A x, y \in S : f[x] = f[y] => x = y,
           \A x \in S : F[x] \in Int /\ G[f[x]] = F[x]
    PROVE  SumFunctionOnSet(G, {f[x] : x \in S}) = SumFunctionOnSet(F, S)
PROOF
<1> DEFINE Image(V) == {f[x] : x \in V}
           T == {V \in SUBSET S : SumFunctionOnSet(G, Image(V)) # SumFunctionOnSet(F, V)}
<1>1. SUFFICES ASSUME T # {} PROVE FALSE
  OBVIOUS
<1>2. PICK V \in T : \A W \in T : W \subseteq V => W = V
  <2>1. T \subseteq SUBSET S
    OBVIOUS
  <2> HIDE DEF T
  <2> QED
    BY <1>1, <2>1, SmallestMember
<1>3. V \subseteq S /\ IsFiniteSet(V) /\ SumFunctionOnSet(G, Image(V)) # SumFunctionOnSet(F, V)
  BY <1>2, FS_Subset
<1>4. V # {}
  <2> SUFFICES ASSUME V = {} PROVE FALSE
    OBVIOUS
  <2>1. Image(V) = {}
    OBVIOUS
  <2> QED
    BY <1>3, <2>1, SumEmpty
<1>5. PICK y \in V : TRUE
  BY <1>4
<1> DEFINE X == V \ {y}
<1>6. SumFunctionOnSet(G, Image(X)) = SumFunctionOnSet(F, X) /\ IsFiniteSet(X) /\ X \subseteq S
  BY <1>2, <1>3, <1>5, FS_Subset
<1>7. V = X \cup {y} /\ y \notin X
  BY <1>5
<1>8. SumFunctionOnSet(F, V) = SumFunctionOnSet(F, X) + F[y]
  <2>1. \A x \in X \cup {y} : F[x] \in Int
    BY <1>3, <1>7
  <2> HIDE DEF X
  <2> QED
    BY <1>6, <1>7, <2>1, SumJoin
<1>9. SumFunctionOnSet(G, Image(V)) = SumFunctionOnSet(G, Image(X)) + G[f[y]]
  <2> DEFINE Y == Image(X)
             z == f[y]
  <2>1. IsFiniteSet(Y)
    BY <1>6, ImageFinite
  <2>2. Image(V) = Y \cup {z}
    BY <1>7
  <2>3. z \notin Y
    BY <1>3, <1>5, <1>6
  <2>4. \A x \in Y \cup {z} : G[x] \in Int
    BY <1>3, <1>5, <1>6
  <2> HIDE DEF Y, z
  <2>5. SumFunctionOnSet(G, Y \cup {z}) = SumFunctionOnSet(G, Y) + G[z]
    BY <2>1, <2>3, <2>4, SumJoin
  <2> QED
    BY <2>2, <2>5 DEF Y, z
<1>10. G[f[y]] = F[y]
  BY <1>3, <1>5
<1> QED
  BY <1>3, <1>6, <1>8, <1>9, <1>10

\* Two functions added up.
LEMMA SumAdd ==
    ASSUME NEW F, NEW G, NEW H, NEW S, IsFiniteSet(S),
           \A x \in S : F[x] \in Int /\ G[x] \in Int /\ H[x] = F[x] + G[x]
    PROVE  SumFunctionOnSet(H, S) = SumFunctionOnSet(F, S) + SumFunctionOnSet(G, S)
PROOF
<1> DEFINE T == {V \in SUBSET S : SumFunctionOnSet(H, V) # SumFunctionOnSet(F, V) + SumFunctionOnSet(G, V)}
<1>1. SUFFICES ASSUME T # {} PROVE FALSE
  OBVIOUS
<1>2. PICK V \in T : \A W \in T : W \subseteq V => W = V
  <2>1. T \subseteq SUBSET S
    OBVIOUS
  <2> HIDE DEF T
  <2> QED
    BY <1>1, <2>1, SmallestMember
<1>3. V \subseteq S /\ IsFiniteSet(V) /\ SumFunctionOnSet(H, V) # SumFunctionOnSet(F, V) + SumFunctionOnSet(G, V)
  BY <1>2, FS_Subset
<1>4. V # {}
  BY <1>3, SumEmpty
<1> DEFINE X == SumOthers(V)
           y == SumElement(V)
<1>5. y \in V /\ X \subseteq V /\ X # V /\ IsFiniteSet(X)
  BY <1>3, <1>4, RestSmaller, FS_Subset
<1>6. SumFunctionOnSet(H, X) = SumFunctionOnSet(F, X) + SumFunctionOnSet(G, X)
  BY <1>2, <1>3, <1>5
<1>7. /\ SumFunctionOnSet(F, V) = F[y] + SumFunctionOnSet(F, X)
      /\ SumFunctionOnSet(G, V) = G[y] + SumFunctionOnSet(G, X)
      /\ SumFunctionOnSet(H, V) = H[y] + SumFunctionOnSet(H, X)
  BY <1>3, <1>4, SumUnfold
<1>8. SumFunctionOnSet(F, X) \in Int /\ SumFunctionOnSet(G, X) \in Int
  BY <1>3, <1>5, SumInt
<1>9. F[y] \in Int /\ G[y] \in Int /\ H[y] = F[y] + G[y]
  BY <1>3, <1>5
<1> QED
  BY <1>3, <1>6, <1>7, <1>8, <1>9

\* Only what is not zero counts.
LEMMA SumRestrict ==
    ASSUME NEW F, NEW S, NEW U, IsFiniteSet(U), S \subseteq U, \A x \in U : F[x] \in Int, \A x \in U \ S : F[x] = 0
    PROVE  SumFunctionOnSet(F, U) = SumFunctionOnSet(F, S)
PROOF
<1> DEFINE R == U \ S
<1>1. IsFiniteSet(S) /\ IsFiniteSet(R) /\ S \cap R = {} /\ U = S \cup R
  BY FS_Subset
<1>2. SumFunctionOnSet(F, R) = 0
  BY <1>1, SumZero
<1>3. SumFunctionOnSet(F, S) \in Int
  BY <1>1, SumInt
<1>4. \A x \in S \cup R : F[x] \in Int
  OBVIOUS
<1> HIDE DEF R
<1>5. SumFunctionOnSet(F, S \cup R) = SumFunctionOnSet(F, S) + SumFunctionOnSet(F, R)
  BY <1>1, <1>4, SumUnion
<1> QED
  BY <1>1, <1>2, <1>3, <1>5

LEMMA SumNegate ==
    ASSUME NEW F, NEW G, NEW S, IsFiniteSet(S), \A x \in S : F[x] \in Int /\ G[x] = -F[x]
    PROVE  SumFunctionOnSet(G, S) = -SumFunctionOnSet(F, S)
PROOF
<1> DEFINE H == [x \in S |-> 0]
<1>1. SumFunctionOnSet(H, S) = 0
  BY SumZero
<1>2. \A x \in S : F[x] \in Int /\ G[x] \in Int /\ H[x] = F[x] + G[x]
  OBVIOUS
<1> HIDE DEF H
<1>3. SumFunctionOnSet(H, S) = SumFunctionOnSet(F, S) + SumFunctionOnSet(G, S)
  BY <1>2, SumAdd
<1>4. SumFunctionOnSet(F, S) \in Int /\ SumFunctionOnSet(G, S) \in Int
  BY <1>2, SumInt
<1> QED
  BY <1>1, <1>3, <1>4

\* A sum of values that are not larger is not larger.
LEMMA SumMonotone ==
    ASSUME NEW F, NEW G, NEW S, IsFiniteSet(S), \A x \in S : F[x] \in Int /\ G[x] \in Int /\ F[x] <= G[x]
    PROVE  SumFunctionOnSet(F, S) <= SumFunctionOnSet(G, S)
PROOF
<1> DEFINE H == [x \in S |-> G[x] - F[x]]
<1>1. \A x \in S : H[x] \in Nat /\ H[x] \in Int /\ F[x] \in Int /\ G[x] = F[x] + H[x]
  OBVIOUS
<1> HIDE DEF H
<1>2. SumFunctionOnSet(G, S) = SumFunctionOnSet(F, S) + SumFunctionOnSet(H, S)
  BY <1>1, SumAdd
<1>3. SumFunctionOnSet(H, S) \in Nat /\ SumFunctionOnSet(F, S) \in Int
  BY <1>1, SumNat, SumInt
<1> QED
  BY <1>2, <1>3

\* One factor taken out of a sum.
LEMMA SumScale ==
    ASSUME NEW F, NEW G, NEW c \in Int, NEW S, IsFiniteSet(S), \A x \in S : F[x] \in Int /\ G[x] = c * F[x]
    PROVE  SumFunctionOnSet(G, S) = c * SumFunctionOnSet(F, S)
PROOF
<1> DEFINE T == {V \in SUBSET S : SumFunctionOnSet(G, V) # c * SumFunctionOnSet(F, V)}
<1>1. SUFFICES ASSUME T # {} PROVE FALSE
  OBVIOUS
<1>2. PICK V \in T : \A W \in T : W \subseteq V => W = V
  <2>1. T \subseteq SUBSET S
    OBVIOUS
  <2> HIDE DEF T
  <2> QED
    BY <1>1, <2>1, SmallestMember
<1>3. V \subseteq S /\ IsFiniteSet(V) /\ SumFunctionOnSet(G, V) # c * SumFunctionOnSet(F, V)
  BY <1>2, FS_Subset
<1>4. V # {}
  <2>1. SumFunctionOnSet(F, {}) = 0 /\ SumFunctionOnSet(G, {}) = 0 /\ c * 0 = 0
    BY SumEmpty
  <2> QED
    BY <1>3, <2>1
<1> DEFINE X == SumOthers(V)
           y == SumElement(V)
<1>5. y \in V /\ X \subseteq V /\ X # V /\ IsFiniteSet(X)
  BY <1>3, <1>4, RestSmaller, FS_Subset
<1>6. SumFunctionOnSet(G, X) = c * SumFunctionOnSet(F, X)
  BY <1>2, <1>3, <1>5
<1>7. /\ SumFunctionOnSet(F, V) = F[y] + SumFunctionOnSet(F, X)
      /\ SumFunctionOnSet(G, V) = G[y] + SumFunctionOnSet(G, X)
  BY <1>3, <1>4, SumUnfold
<1>8. SumFunctionOnSet(F, X) \in Int
  BY <1>3, <1>5, SumInt
<1>9. F[y] \in Int /\ G[y] = c * F[y]
  BY <1>3, <1>5
<1>10. \A a, b \in Int : c * (a + b) = c * a + c * b
  BY Z3
<1>11. c * (F[y] + SumFunctionOnSet(F, X)) = c * F[y] + c * SumFunctionOnSet(F, X)
  BY <1>8, <1>9, <1>10
<1> QED
  BY <1>3, <1>6, <1>7, <1>9, <1>11
=============================================================================
