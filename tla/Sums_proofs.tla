----------------------------- MODULE Sums_proofs -----------------------------
(***************************************************************************)
(* What Total computes: the laws of sums that the books of the inventory   *)
(* and of the receipts need. Total folds over an arbitrary choice of       *)
(* elements; that it does not depend on the choice, and everything else,   *)
(* is proved by induction over the finite set (SetInduction), which rests  *)
(* on the fact that inclusion of finite sets is well-founded.              *)
(***************************************************************************)
EXTENDS Sums, FiniteSetTheorems, WellFoundedInduction, TLAPS

(* A non-empty collection of subsets of a finite set has a smallest one.   *)
LEMMA SmallestSet ==
  ASSUME NEW S, IsFiniteSet(S), NEW T, T \subseteq SUBSET S, T # {}
  PROVE  \E U \in T : \A V \in T : V \subseteq U => V = U
  <1>1. IsWellFoundedOn(StrictSubsetOrdering(S), SUBSET S)
    BY FS_StrictSubsetOrderingWellFounded, FS_FiniteSubsetsOfFinite
  <1>2. PICK U \in T : \A V \in T : ~ (<<V, U>> \in StrictSubsetOrdering(S))
    BY <1>1, WFMin
  <1>. QED  BY <1>2 DEF StrictSubsetOrdering

(* A collection of sets that has {} and grows by elements has all of S.    *)
LEMMA SetInduction ==
  ASSUME NEW S, IsFiniteSet(S), NEW C,
         {} \in C,
         \A U \in SUBSET S, x \in S : x \notin U /\ U \in C => U \union {x} \in C
  PROVE  S \in C
  <1>. DEFINE T == {U \in SUBSET S : U \notin C}
  <1>. SUFFICES ASSUME T # {} PROVE FALSE
    OBVIOUS
  <1>2. PICK U \in T : \A V \in T : V \subseteq U => V = U
    <2>. HIDE DEF T
    <2>1. T \subseteq SUBSET S  BY DEF T
    <2>. QED  BY <2>1, SmallestSet
  <1>3. PICK x \in U : TRUE
    OBVIOUS
  <1>4. U \ {x} \in C
    BY <1>2
  <1>5. (U \ {x}) \union {x} = U
    OBVIOUS
  <1>6. (U \ {x}) \in SUBSET S /\ x \in S /\ x \notin U \ {x}
    OBVIOUS
  <1>. QED  BY <1>4, <1>5, <1>6

-----------------------------------------------------------------------------
(* The recursive function that Total applies to S, and what defines it.    *)
Some(s) == CHOOSE x \in s : TRUE
IsSum(f, S, g) ==
  g = [s \in SUBSET S |-> IF s = {} THEN 0 ELSE f[Some(s)] + g[s \ {Some(s)}]]
SumFcn(f, S) == CHOOSE g : IsSum(f, S, g)

(* The sum is what such a function says of the whole set.                  *)
LEMMA TotalIsSum == ASSUME NEW f, NEW S PROVE Total(f, S) = SumFcn(f, S)[S]
  BY Zenon DEF Total, MapThenSumSet, MapThenFoldSet, SumFcn, IsSum, Some

(* The element looked at first is one of the set's.                        *)
LEMMA SomeIsMember == ASSUME NEW s, s # {} PROVE Some(s) \in s
  BY DEF Some

(* What such a function says of one set.                                   *)
LEMMA IsSumAt ==
  ASSUME NEW f, NEW S, NEW g, IsSum(f, S, g), NEW V \in SUBSET S
  PROVE  g[V] = IF V = {} THEN 0 ELSE f[Some(V)] + g[V \ {Some(V)}]
  BY Zenon DEF IsSum

(* Two such functions agree on the sets they are both defined for.         *)
LEMMA SumFcnUnique ==
  ASSUME NEW f, NEW S, NEW R, NEW W, IsFiniteSet(W), W \subseteq S, W \subseteq R,
         NEW g, NEW h, IsSum(f, S, g), IsSum(f, R, h)
  PROVE  g[W] = h[W]
  <1>. DEFINE T == {U \in SUBSET W : g[U] # h[U]}
  <1>. SUFFICES ASSUME T # {} PROVE FALSE
    OBVIOUS
  <1>1. PICK U \in T : \A V \in T : V \subseteq U => V = U
    <2>. HIDE DEF T
    <2>1. T \subseteq SUBSET W  BY DEF T
    <2>. QED  BY <2>1, SmallestSet
  <1>2. U \in SUBSET S /\ U \in SUBSET R
    OBVIOUS
  <1>3. /\ g[U] = IF U = {} THEN 0 ELSE f[Some(U)] + g[U \ {Some(U)}]
        /\ h[U] = IF U = {} THEN 0 ELSE f[Some(U)] + h[U \ {Some(U)}]
    BY <1>2, IsSumAt
  <1>4. CASE U = {}
    BY <1>3, <1>4
  <1>5. CASE U # {}
    <2>1. U \ {Some(U)} \notin T
      BY <1>1, <1>5, SomeIsMember
    <2>2. g[U \ {Some(U)}] = h[U \ {Some(U)}]
      BY <2>1
    <2>. QED  BY <1>3, <1>5, <2>2
  <1>. QED  BY <1>4, <1>5

(* Such a function exists.                                                 *)
LEMMA SumFcnExists ==
  ASSUME NEW f, NEW S, IsFiniteSet(S)
  PROVE  IsSum(f, S, SumFcn(f, S))
  <1>. DEFINE T == {U \in SUBSET S : ~ \E g : IsSum(f, U, g)}
  <1>. SUFFICES ASSUME T # {} PROVE FALSE
    <2>1. \E g : IsSum(f, S, g)
      OBVIOUS
    <2>. QED  BY <2>1, Zenon DEF SumFcn
  <1>1. PICK U \in T : \A V \in T : V \subseteq U => V = U
    <2>. HIDE DEF T
    <2>1. T \subseteq SUBSET S  BY DEF T
    <2>. QED  BY <2>1, SmallestSet
  <1>. DEFINE G(V) == SumFcn(f, V)
              h == [s \in SUBSET U |->
                      IF s = {} THEN 0 ELSE f[Some(s)] + G(s \ {Some(s)})[s \ {Some(s)}]]
  <1>2. ASSUME NEW V \in SUBSET U, V # U
        PROVE  IsSum(f, V, G(V))
    <2>1. V \notin T
      BY <1>1, <1>2
    <2>2. \E g : IsSum(f, V, g)
      BY <2>1
    <2>. QED  BY <2>2, Zenon DEF SumFcn
  <1>3. ASSUME NEW V \in SUBSET U, V # U
        PROVE  h[V] = G(V)[V]
    <2>1. CASE V = {}
      BY <1>2, <1>3, <2>1, IsSumAt
    <2>2. CASE V # {}
      <3>. DEFINE W == V \ {Some(V)}
      <3>1. W \in SUBSET U /\ W # U /\ W \subseteq V /\ IsFiniteSet(W)
        <4>1. W \in SUBSET S
          OBVIOUS
        <4>. QED  BY <4>1, FS_Subset, <1>3
      <3>2. IsSum(f, W, G(W)) /\ IsSum(f, V, G(V))
        <4>. HIDE DEF G, W
        <4>. QED BY <3>1, <1>2, <1>3
      <3>3. G(V)[W] = G(W)[W]
        <4>. HIDE DEF G, W
        <4>. QED BY <3>1, <3>2, SumFcnUnique
      <3>4. G(V)[V] = f[Some(V)] + G(V)[W]
        <4>1. V \in SUBSET V OBVIOUS
        <4>. HIDE DEF G
        <4>. QED  BY <4>1, <3>2, <2>2, IsSumAt
      <3>5. h[V] = f[Some(V)] + G(W)[W]
        BY <2>2
      <3>. QED  BY <3>3, <3>4, <3>5
    <2>. QED  BY <2>1, <2>2
  <1>4. ASSUME NEW V \in SUBSET U
        PROVE  h[V] = IF V = {} THEN 0 ELSE f[Some(V)] + h[V \ {Some(V)}]
    <2>1. CASE V = {}
      BY <2>1
    <2>2. CASE V # {}
      <3>1. V \ {Some(V)} \in SUBSET U /\ V \ {Some(V)} # U
        BY <2>2, SomeIsMember
      <3>2. h[V \ {Some(V)}] = G(V \ {Some(V)})[V \ {Some(V)}]
        <4>. HIDE DEF h, G
        <4>. QED  BY <3>1, <1>3
      <3>3. h[V] = f[Some(V)] + G(V \ {Some(V)})[V \ {Some(V)}]
        BY <2>2
      <3>. QED  BY <3>2, <3>3, <2>2
    <2>. QED  BY <2>1, <2>2
  <1>5. IsSum(f, U, h)
    <2>. DEFINE k == [s \in SUBSET U |-> IF s = {} THEN 0 ELSE f[Some(s)] + h[s \ {Some(s)}]]
    <2>1. \A V \in SUBSET U : h[V] = k[V]
      <3>. HIDE DEF h
      <3>. QED  BY <1>4
    <2>2. h = k
      <3>1. h = [s \in SUBSET U |-> h[s]]
        OBVIOUS
      <3>. HIDE DEF h
      <3>. QED  BY <2>1, <3>1
    <2>. HIDE DEF h
    <2>. QED  BY <2>2 DEF IsSum
  <1>. QED  BY <1>5

-----------------------------------------------------------------------------
(* The laws of sums.                                                       *)

(* A sum is its first element's value and the sum of the others.           *)
LEMMA SumStep ==
  ASSUME NEW f, NEW S, IsFiniteSet(S)
  PROVE  Total(f, S) = IF S = {} THEN 0 ELSE f[Some(S)] + Total(f, S \ {Some(S)})
  <1>. DEFINE W == S \ {Some(S)}
  <1>1. W \in SUBSET S /\ S \in SUBSET S
    OBVIOUS
  <1>0. IsFiniteSet(W) /\ W \subseteq S /\ W \subseteq W
    <2>. HIDE DEF W
    <2>. QED  BY <1>1, FS_Subset
  <1>2. IsSum(f, S, SumFcn(f, S)) /\ IsSum(f, W, SumFcn(f, W))
    <2>. HIDE DEF W
    <2>. QED  BY <1>0, SumFcnExists
  <1>3. SumFcn(f, S)[W] = SumFcn(f, W)[W]
    <2>. DEFINE g == SumFcn(f, S)
                h == SumFcn(f, W)
    <2>1. IsSum(f, S, g) /\ IsSum(f, W, h)
      BY <1>2
    <2>. HIDE DEF W, g, h
    <2>2. g[W] = h[W]
      BY <1>0, <2>1, SumFcnUnique
    <2>. QED  BY <2>2 DEF g, h
  <1>4. SumFcn(f, S)[S] = IF S = {} THEN 0 ELSE f[Some(S)] + SumFcn(f, S)[W]
    BY <1>1, <1>2, IsSumAt
  <1>. QED  BY <1>3, <1>4, TotalIsSum

(* The sum over nothing is 0.                                              *)
THEOREM SumOfNone == ASSUME NEW f PROVE Total(f, {}) = 0
  BY SumStep, FS_EmptySet

(* Whatever element is looked at last, it counts once.                     *)
LEMMA SumOfUnion ==
  ASSUME NEW f, NEW S, IsFiniteSet(S), \A x \in S : f[x] \in Int
  PROVE  /\ Total(f, S) \in Int
         /\ \A x \in S : Total(f, S) = f[x] + Total(f, S \ {x})
  <1>. DEFINE Good(U) == /\ Total(f, U) \in Int
                         /\ \A x \in U : Total(f, U) = f[x] + Total(f, U \ {x})
              T == {U \in SUBSET S : ~ Good(U)}
  <1>. SUFFICES ASSUME T # {} PROVE FALSE
    OBVIOUS
  <1>1. PICK U \in T : \A V \in T : V \subseteq U => V = U
    <2>. HIDE DEF T
    <2>1. T \subseteq SUBSET S  BY DEF T
    <2>. QED  BY <2>1, SmallestSet
  <1>2. IsFiniteSet(U) /\ U \in SUBSET S
    <2>1. U \in SUBSET S  OBVIOUS
    <2>. QED  BY <2>1, FS_Subset
  <1>3. \A V \in SUBSET U : V # U => Good(V) /\ IsFiniteSet(V)
    <2>1. \A V \in SUBSET U : V # U => Good(V)
      BY <1>1
    <2>. QED  BY <2>1, <1>2, FS_Subset
  <1>. DEFINE y == Some(U)
  <1>4. CASE U = {}
    BY <1>4, SumOfNone
  <1>5. CASE U # {}
    <2>1. y \in U /\ Total(f, U) = f[y] + Total(f, U \ {y})
      BY <1>2, <1>5, SumStep, SomeIsMember
    <2>2. Good(U \ {y})
      <3>1. U \ {y} \in SUBSET U /\ U \ {y} # U
        BY <2>1
      <3>. HIDE DEF Good, y
      <3>. QED  BY <3>1, <1>3
    <2>3. Total(f, U) \in Int
      BY <2>1, <2>2, <1>2
    <2>4. ASSUME NEW x \in U PROVE Total(f, U) = f[x] + Total(f, U \ {x})
      <3>1. CASE x = y
        BY <2>1, <3>1
      <3>2. CASE x # y
        <4>. DEFINE V == U \ {x}
                    W == U \ {y}
        <4>1. V \in SUBSET U /\ V # U /\ y \in V /\ x \in W
          BY <2>1, <3>2
        <4>2. Good(V)
          <5>. HIDE DEF Good, V, y
          <5>. QED  BY <4>1, <1>3
        <4>3. Total(f, V) = f[y] + Total(f, V \ {y})
          BY <4>1, <4>2
        <4>4. Total(f, W) = f[x] + Total(f, W \ {x})
          BY <4>1, <2>2
        <4>5. V \ {y} = W \ {x}
          OBVIOUS
        <4>6. Good(V \ {y})
          <5>1. V \ {y} \in SUBSET U /\ V \ {y} # U
            BY <4>1
          <5>. HIDE DEF Good, V, y
          <5>. QED  BY <5>1, <1>3
        <4>7. Total(f, V \ {y}) \in Int /\ f[x] \in Int /\ f[y] \in Int
          BY <4>6, <1>2, <2>1
        <4>8. Total(f, U) = f[y] + Total(f, W) /\ Total(f, U \ {x}) = Total(f, V)
          BY <2>1
        <4>9. Total(f, V \ {y}) = Total(f, W \ {x})
          BY <4>5
        <4>11. Total(f, V) = f[y] + Total(f, V \ {y}) /\ Total(f, W) = f[x] + Total(f, V \ {y})
          BY <4>3, <4>4, <4>9
        <4>. HIDE DEF V, W, y, Good
        <4>. QED  BY <4>7, <4>8, <4>11
      <3>. QED  BY <3>1, <3>2
    <2>. QED  BY <2>3, <2>4
  <1>. QED  BY <1>4, <1>5

(* A sum of integers is an integer.                                        *)
THEOREM SumType ==
  ASSUME NEW f, NEW S, IsFiniteSet(S), \A x \in S : f[x] \in Int
  PROVE  Total(f, S) \in Int
  BY SumOfUnion

(* One element more adds its value.                                        *)
THEOREM SumWithOneMore ==
  ASSUME NEW f, NEW S, NEW x, IsFiniteSet(S), x \notin S,
         \A y \in S \union {x} : f[y] \in Int
  PROVE  Total(f, S \union {x}) = f[x] + Total(f, S)
  <1>1. IsFiniteSet(S \union {x})
    BY FS_AddElement
  <1>2. (S \union {x}) \ {x} = S
    OBVIOUS
  <1>. QED  BY <1>1, <1>2, SumOfUnion

(* A sum depends on the values over its set only.                          *)
THEOREM SumsAgree ==
  ASSUME NEW f, NEW g, NEW S, IsFiniteSet(S), \A x \in S : f[x] = g[x] /\ f[x] \in Int
  PROVE  Total(f, S) = Total(g, S)
  <1>. DEFINE C == {U \in SUBSET S : Total(f, U) = Total(g, U)}
  <1>1. {} \in C
    BY SumOfNone
  <1>2. ASSUME NEW U \in SUBSET S, NEW x \in S, x \notin U, U \in C
        PROVE  U \union {x} \in C
    <2>1. IsFiniteSet(U)
      BY FS_Subset
    <2>2. Total(f, U \union {x}) = f[x] + Total(f, U) /\ Total(g, U \union {x}) = g[x] + Total(g, U)
      BY <2>1, <1>2, SumWithOneMore
    <2>. QED  BY <1>2, <2>2
  <1>3. S \in C
    <2>. HIDE DEF C
    <2>. QED  BY <1>1, <1>2, SetInduction
  <1>. QED  BY <1>3

(* The sum of sums is the sum of both.                                     *)
THEOREM SumOfSums ==
  ASSUME NEW f, NEW g, NEW h, NEW S, IsFiniteSet(S),
         \A x \in S : f[x] \in Int /\ g[x] \in Int /\ h[x] = f[x] + g[x]
  PROVE  Total(h, S) = Total(f, S) + Total(g, S)
  <1>. DEFINE C == {U \in SUBSET S : Total(h, U) = Total(f, U) + Total(g, U)}
  <1>1. {} \in C
    BY SumOfNone
  <1>2. ASSUME NEW U \in SUBSET S, NEW x \in S, x \notin U, U \in C
        PROVE  U \union {x} \in C
    <2>1. IsFiniteSet(U)
      BY FS_Subset
    <2>2. /\ Total(f, U \union {x}) = f[x] + Total(f, U)
          /\ Total(g, U \union {x}) = g[x] + Total(g, U)
          /\ Total(h, U \union {x}) = h[x] + Total(h, U)
      <3>1. \A y \in U \union {x} : f[y] \in Int /\ g[y] \in Int /\ h[y] \in Int
        OBVIOUS
      <3>. QED  BY <2>1, <3>1, <1>2, SumWithOneMore
    <2>3. Total(f, U) \in Int /\ Total(g, U) \in Int
      BY <2>1, SumType
    <2>. QED  BY <1>2, <2>2, <2>3
  <1>3. S \in C
    <2>. HIDE DEF C
    <2>. QED  BY <1>1, <1>2, SetInduction
  <1>. QED  BY <1>3

(* Where every value is at most another, so are the sums.                  *)
THEOREM SumsInOrder ==
  ASSUME NEW f, NEW g, NEW S, IsFiniteSet(S),
         \A x \in S : f[x] \in Int /\ g[x] \in Int /\ f[x] <= g[x]
  PROVE  Total(f, S) <= Total(g, S)
  <1>. DEFINE C == {U \in SUBSET S : Total(f, U) <= Total(g, U)}
  <1>1. {} \in C
    BY SumOfNone
  <1>2. ASSUME NEW U \in SUBSET S, NEW x \in S, x \notin U, U \in C
        PROVE  U \union {x} \in C
    <2>1. IsFiniteSet(U)
      BY FS_Subset
    <2>2. Total(f, U \union {x}) = f[x] + Total(f, U) /\ Total(g, U \union {x}) = g[x] + Total(g, U)
      BY <2>1, <1>2, SumWithOneMore
    <2>3. Total(f, U) \in Int /\ Total(g, U) \in Int
      BY <2>1, SumType
    <2>. QED  BY <1>2, <2>2, <2>3
  <1>3. S \in C
    <2>. HIDE DEF C
    <2>. QED  BY <1>1, <1>2, SetInduction
  <1>. QED  BY <1>3

(* Nothing outside S counts.                                               *)
THEOREM SumWithin ==
  ASSUME NEW f, NEW S, NEW R, IsFiniteSet(R), S \subseteq R,
         \A x \in S : f[x] \in Int, \A x \in R \ S : f[x] = 0
  PROVE  Total(f, S) = Total(f, R)
  <1>. DEFINE C == {U \in SUBSET (R \ S) : Total(f, S \union U) = Total(f, S)}
  <1>1. {} \in C
    BY SumOfNone
  <1>0. IsFiniteSet(R \ S) /\ IsFiniteSet(S)
    BY FS_Subset
  <1>2. ASSUME NEW U \in SUBSET (R \ S), NEW x \in R \ S, x \notin U, U \in C
        PROVE  U \union {x} \in C
    <2>1. IsFiniteSet(S \union U)
      <3>1. S \union U \in SUBSET R  OBVIOUS
      <3>. QED BY <3>1, FS_Subset
    <2>2. Total(f, (S \union U) \union {x}) = f[x] + Total(f, S \union U)
      <3>1. x \notin S \union U /\ \A y \in (S \union U) \union {x} : f[y] \in Int
        BY <1>2
      <3>. QED  BY <2>1, <3>1, SumWithOneMore
    <2>3. Total(f, S) \in Int
      BY <1>0, SumType
    <2>4. (S \union U) \union {x} = S \union (U \union {x})
      OBVIOUS
    <2>5. f[x] = 0 /\ U \union {x} \in SUBSET (R \ S) /\ Total(f, S \union U) = Total(f, S)
      BY <1>2
    <2>6. Total(f, S \union (U \union {x})) = Total(f, S)
      <3>1. Total(f, S \union (U \union {x})) = f[x] + Total(f, S \union U)
        BY <2>2, <2>4
      <3>. QED  BY <3>1, <2>3, <2>5
    <2>. QED  BY <2>5, <2>6
  <1>3. (R \ S) \in C
    <2>. HIDE DEF C
    <2>. QED  BY <1>0, <1>1, <1>2, SetInduction
  <1>4. S \union (R \ S) = R
    OBVIOUS
  <1>. QED  BY <1>3, <1>4

(* Values of 0 sum up to 0.                                                *)
THEOREM SumOfNothing ==
  ASSUME NEW f, NEW S, IsFiniteSet(S), \A x \in S : f[x] = 0
  PROVE  Total(f, S) = 0
  BY SumWithin, SumOfNone

(* A sum of natural numbers is one, and no smaller than any of them.       *)
THEOREM SumOfNaturals ==
  ASSUME NEW f, NEW S, IsFiniteSet(S), \A x \in S : f[x] \in Nat
  PROVE  Total(f, S) \in Nat /\ \A x \in S : f[x] <= Total(f, S)
  <1>1. ASSUME NEW R \in SUBSET S PROVE Total(f, R) \in Nat
    <2>. DEFINE zero == [x \in R |-> 0]
    <2>1. IsFiniteSet(R)
      BY FS_Subset
    <2>2. Total(zero, R) = 0
      BY <2>1, SumOfNothing
    <2>3. Total(zero, R) <= Total(f, R)
      BY <2>1, SumsInOrder
    <2>. QED  BY <2>1, <2>2, <2>3, SumType
  <1>2. ASSUME NEW x \in S PROVE f[x] <= Total(f, S)
    <2>1. Total(f, S) = f[x] + Total(f, S \ {x})
      BY SumOfUnion
    <2>2. Total(f, S \ {x}) \in Nat
      BY <1>1
    <2>. QED  BY <2>1, <2>2
  <1>3. S \in SUBSET S OBVIOUS
  <1>. QED  BY <1>1, <1>2, <1>3

(* The sum of fewer natural numbers is not greater.                        *)
THEOREM SumOfFewer ==
  ASSUME NEW f, NEW S, NEW R, IsFiniteSet(S), R \subseteq S, \A x \in S : f[x] \in Nat
  PROVE  Total(f, R) <= Total(f, S)
  <1>. DEFINE g == [x \in S |-> IF x \in R THEN f[x] ELSE 0]
  <1>1. /\ \A x \in S : g[x] \in Int /\ f[x] \in Int /\ g[x] <= f[x]
        /\ \A x \in R : f[x] = g[x] /\ f[x] \in Int /\ g[x] \in Int
        /\ \A x \in S \ R : g[x] = 0
    OBVIOUS
  <1>2. IsFiniteSet(R)
    BY FS_Subset
  <1>. HIDE DEF g
  <1>3. Total(g, S) <= Total(f, S)
    BY <1>1, SumsInOrder
  <1>4. Total(g, R) = Total(g, S)
    BY <1>1, SumWithin
  <1>5. Total(f, R) = Total(g, R)
    BY <1>1, <1>2, SumsAgree
  <1>. QED  BY <1>3, <1>4, <1>5

(* The sum of the opposites is the opposite of the sum.                    *)
THEOREM SumOfOpposites ==
  ASSUME NEW f, NEW g, NEW S, IsFiniteSet(S), \A x \in S : f[x] \in Int /\ g[x] = -f[x]
  PROVE  Total(g, S) = -Total(f, S)
  <1>. DEFINE zero == [x \in S |-> 0]
  <1>1. \A x \in S : f[x] \in Int /\ g[x] \in Int /\ zero[x] = f[x] + g[x]
    OBVIOUS
  <1>2. Total(zero, S) = 0
    BY SumOfNothing
  <1>. HIDE DEF zero
  <1>3. Total(zero, S) = Total(f, S) + Total(g, S)
    BY <1>1, SumOfSums
  <1>4. Total(f, S) \in Int /\ Total(g, S) \in Int
    BY <1>1, SumType
  <1>. QED  BY <1>2, <1>3, <1>4

(* What is outside R may as well count as nothing.                         *)
THEOREM SumOfPart ==
  ASSUME NEW f, NEW g, NEW S, NEW R, IsFiniteSet(S),
         \A x \in R \intersect S : g[x] = f[x] /\ f[x] \in Int,
         \A x \in S \ R : g[x] = 0
  PROVE  Total(g, S) = Total(f, R \intersect S)
  <1>. DEFINE V == R \intersect S
  <1>1. /\ V \subseteq S /\ V \in SUBSET S
        /\ \A x \in V : g[x] = f[x] /\ g[x] \in Int
        /\ \A x \in S \ V : g[x] = 0
    OBVIOUS
  <1>. HIDE DEF V
  <1>2. IsFiniteSet(V)
    BY <1>1, FS_Subset
  <1>3. Total(g, V) = Total(g, S)
    BY <1>1, SumWithin
  <1>4. Total(g, V) = Total(f, V)
    BY <1>1, <1>2, SumsAgree
  <1>. QED  BY <1>3, <1>4 DEF V

(* One value changes, the sum changes by as much.                          *)
THEOREM SumAfterChange ==
  ASSUME NEW f, NEW g, NEW S, NEW x \in S, IsFiniteSet(S),
         \A y \in S : f[y] \in Int /\ g[y] \in Int,
         \A y \in S \ {x} : g[y] = f[y]
  PROVE  Total(g, S) = Total(f, S) + g[x] - f[x]
  <1>1. Total(f, S) = f[x] + Total(f, S \ {x}) /\ Total(g, S) = g[x] + Total(g, S \ {x})
    BY SumOfUnion
  <1>2. IsFiniteSet(S \ {x})
    BY FS_RemoveElement
  <1>3. Total(f, S \ {x}) = Total(g, S \ {x}) /\ Total(f, S \ {x}) \in Int
    BY <1>2, SumsAgree, SumType
  <1>. QED  BY <1>1, <1>3

(* Only one value counts.                                                  *)
THEOREM SumOfOne ==
  ASSUME NEW f, NEW S, NEW x \in S, IsFiniteSet(S), f[x] \in Int, \A y \in S \ {x} : f[y] = 0
  PROVE  Total(f, S) = f[x]
  <1>. DEFINE zero == [y \in S |-> 0]
  <1>1. /\ \A y \in S : zero[y] \in Int /\ f[y] \in Int /\ zero[y] = 0
        /\ \A y \in S \ {x} : f[y] = zero[y]
    OBVIOUS
  <1>. HIDE DEF zero
  <1>2. Total(zero, S) = 0
    BY <1>1, SumOfNothing
  <1>3. Total(f, S) = Total(zero, S) + f[x] - zero[x]
    BY <1>1, SumAfterChange
  <1>. QED  BY <1>1, <1>2, <1>3
=============================================================================
