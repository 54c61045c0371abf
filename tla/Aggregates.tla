----------------------------- MODULE Aggregates -----------------------------
(***************************************************************************)
(* Lemmas on finite sets and sums the proofs of several components use: the *)
(* smallest of some sets, the least and the greatest of some numbers, and   *)
(* MapThenSumSet over a finite set.                                         *)
(*                                                                         *)
(* The library's induction theorems take an operator and cannot be used: a  *)
(* smallest counterexample among finite sets does the same work.            *)
(***************************************************************************)
EXTENDS Integers, FiniteSets, FiniteSetsExt, FiniteSetTheorems, WellFoundedInduction, TLAPS

\* A non-empty collection of finite sets has a smallest one, in the sense that
\* none of the others is part of it.
LEMMA SmallestSet ==
    ASSUME NEW Bad, Bad # {}, \A B \in Bad : IsFiniteSet(B)
    PROVE  \E M \in Bad : \A N \in Bad : ~(N \subseteq M /\ N # M)
  <1> DEFINE All == UNION Bad
             Below == StrictSubsetOrdering(All)
  <1>1. IsWellFoundedOn(Below, FiniteSubsetsOf(All))
    BY FS_StrictSubsetOrderingWellFounded
  <1>2. Bad \subseteq FiniteSubsetsOf(All)
    BY DEF FiniteSubsetsOf
  <1> HIDE DEF Below
  <1>3. PICK M \in Bad : \A N \in Bad : ~(<<N, M>> \in Below)
    BY <1>1, <1>2, WFMin
  <1>4. SUFFICES ASSUME NEW N \in Bad, N \subseteq M, N # M PROVE FALSE
    OBVIOUS
  <1>5. <<N, M>> \in Below
    BY <1>4 DEF Below, StrictSubsetOrdering
  <1> QED
    BY <1>3, <1>5

\* Some natural numbers have a least one.
LEMMA LeastNumber ==
    ASSUME NEW S \in SUBSET Nat, S # {}
    PROVE  \E m \in S : \A n \in S : m <= n
  <1> DEFINE Upto == {0 .. n : n \in S}
  <1>1. Upto # {} /\ \A B \in Upto : IsFiniteSet(B)
    <2>1. \A n \in S : IsFiniteSet(0 .. n)
      BY FS_Interval
    <2> QED
      BY <2>1
  <1> HIDE DEF Upto
  <1>2. PICK M \in Upto : \A N \in Upto : ~(N \subseteq M /\ N # M)
    BY <1>1, SmallestSet
  <1>3. PICK m \in S : M = 0 .. m
    BY DEF Upto
  <1>4. ASSUME NEW n \in S, ~(m <= n) PROVE FALSE
    <2>1. n \in Nat /\ m \in Nat /\ n < m
      BY <1>4
    <2>2. 0 .. n \in Upto
      BY DEF Upto
    <2>3. 0 .. n \subseteq M /\ m \in M /\ m \notin 0 .. n
      BY <1>3, <2>1
    <2> QED
      BY <1>2, <2>2, <2>3
  <1> QED
    BY <1>4

\* Bounded natural numbers have a greatest one: the bound less the least
\* distance to it.
LEMMA GreatestNumber ==
    ASSUME NEW n \in Nat, NEW S \in SUBSET (0 .. n), S # {}
    PROVE  \E m \in S : \A y \in S : y <= m
  <1> DEFINE Gaps == {n - y : y \in S}
  <1>1. Gaps \in SUBSET Nat /\ Gaps # {}
    <2>1. \A y \in S : n - y \in Nat
      OBVIOUS
    <2> QED
      BY <2>1
  <1> HIDE DEF Gaps
  <1>2. PICK g \in Gaps : \A h \in Gaps : g <= h
    BY <1>1, LeastNumber
  <1>3. PICK m \in S : g = n - m
    BY DEF Gaps
  <1>4. ASSUME NEW y \in S PROVE y <= m
    <2>1. n - y \in Gaps
      BY DEF Gaps
    <2>2. n - m <= n - y
      BY <1>2, <1>3, <2>1
    <2> QED
      BY <2>2
  <1> QED
    BY <1>4

-----------------------------------------------------------------------------
(* Sums: what q gives for every element of a finite set, added up.           *)

Chosen(S) == CHOOSE x \in S : TRUE

SumOver(c, S) == MapThenSumSet(LAMBDA x : c[x], S)

\* The function MapThenSumSet is defined by, on the subsets of S.
IsSumOn(c, f, S) ==
    f = [s \in SUBSET S |->
            IF s = {} THEN 0 ELSE c[Chosen(s)] + f[s \ {Chosen(s)}]]

SumOn(c, S) == CHOOSE f : IsSumOn(c, f, S)

LEMMA SumIsSumOn == \A c, S : SumOver(c, S) = SumOn(c, S)[S]
  BY DEF SumOver, SumOn, IsSumOn, Chosen, MapThenSumSet, MapThenFoldSet

LEMMA ChosenIn == \A S : S # {} => Chosen(S) \in S
  BY DEF Chosen

\* Two such functions agree where both are defined.
LEMMA SumUnique ==
    ASSUME NEW q, NEW E, IsFiniteSet(E), NEW D \in SUBSET E,
           NEW f, IsSumOn(q, f, E), NEW g, IsSumOn(q, g, D)
    PROVE  \A s \in SUBSET D : f[s] = g[s]
  <1> DEFINE Bad == {s \in SUBSET D : f[s] # g[s]}
  <1>1. SUFFICES ASSUME Bad # {} PROVE FALSE
    OBVIOUS
  <1>2. \A B \in Bad : IsFiniteSet(B)
    BY FS_Subset
  <1> HIDE DEF Bad
  <1>3. PICK M \in Bad : \A N \in Bad : ~(N \subseteq M /\ N # M)
    BY <1>1, <1>2, SmallestSet
  <1> USE DEF Bad
  <1> DEFINE c == Chosen(M)
  <1>4. f[{}] = 0 /\ g[{}] = 0
    BY DEF IsSumOn
  <1>5. M # {}
    BY <1>4
  <1>6. c \in M
    BY <1>5, ChosenIn
  <1>7. M \ {c} \in SUBSET D /\ M \ {c} \subseteq M /\ M \ {c} # M
    BY <1>6
  <1>8. f[M \ {c}] = g[M \ {c}]
    BY <1>3, <1>7
  <1>9. f[M] = q[c] + f[M \ {c}] /\ g[M] = q[c] + g[M \ {c}]
    BY <1>5 DEF IsSumOn
  <1> QED
    BY <1>3, <1>8, <1>9

\* There is one for every finite set.
LEMMA SumExists ==
    ASSUME NEW q, NEW E, IsFiniteSet(E)
    PROVE  IsSumOn(q, SumOn(q, E), E)
  <1> DEFINE Bad == {s \in SUBSET E : ~ \E f : IsSumOn(q, f, s)}
  <1>1. SUFFICES ASSUME Bad # {} PROVE FALSE
    <2>1. Bad = {} => \E f : IsSumOn(q, f, E)
      OBVIOUS
    <2> QED
      BY <2>1 DEF SumOn
  <1>2. \A B \in Bad : IsFiniteSet(B)
    BY FS_Subset
  <1> HIDE DEF Bad
  <1>3. PICK M \in Bad : \A N \in Bad : ~(N \subseteq M /\ N # M)
    BY <1>1, <1>2, SmallestSet
  <1> USE DEF Bad
  <1> DEFINE Rest(s) == s \ {Chosen(s)}
  <1> DEFINE h == [s \in SUBSET M |->
                      IF s = {} THEN 0 ELSE q[Chosen(s)] + SumOn(q, Rest(s))[Rest(s)]]
  <1>4. ASSUME NEW s \in SUBSET M, s # M PROVE IsSumOn(q, SumOn(q, s), s) /\ IsFiniteSet(s)
    <2>1. s \in SUBSET E /\ s \notin Bad
      BY <1>3, <1>4
    <2>2. \E f : IsSumOn(q, f, s)
      BY <2>1
    <2> QED
      BY <2>1, <2>2, FS_Subset DEF SumOn
  <1>5. ASSUME NEW s \in SUBSET M, s # {} PROVE h[Rest(s)] = SumOn(q, Rest(s))[Rest(s)]
    <2> DEFINE t == Rest(s)
    <2>1. t \in SUBSET M /\ t # M
      BY <1>5, ChosenIn
    <2>2. IsSumOn(q, SumOn(q, t), t) /\ IsFiniteSet(t)
      BY <2>1, <1>4
    <2> HIDE DEF t
    <2>3. CASE t = {}
      <3>1. h[t] = 0
        BY <2>1, <2>3
      <3>2. SumOn(q, t)[t] = 0
        BY <2>2, <2>3 DEF IsSumOn
      <3> QED
        BY <3>1, <3>2 DEF t
    <2>4. CASE t # {}
      <3> DEFINE u == Rest(t)
      <3>1. u \in SUBSET t /\ u # t /\ u \in SUBSET M /\ u # M
        BY <2>1, <2>4, ChosenIn
      <3>2. IsSumOn(q, SumOn(q, u), u)
        BY <3>1, <1>4
      <3>3. SumOn(q, t)[u] = SumOn(q, u)[u]
        BY <2>2, <3>1, <3>2, SumUnique
      <3>4. SumOn(q, t)[t] = q[Chosen(t)] + SumOn(q, t)[u]
        BY <2>2, <2>4 DEF IsSumOn
      <3>5. h[t] = q[Chosen(t)] + SumOn(q, u)[u]
        BY <2>1, <2>4
      <3> QED
        BY <3>3, <3>4, <3>5 DEF t
    <2> QED
      BY <2>3, <2>4
  <1>6. h = [s \in SUBSET M |->
                IF s = {} THEN 0 ELSE q[Chosen(s)] + h[s \ {Chosen(s)}]]
    <2>1. \A s \in SUBSET M :
             (IF s = {} THEN 0 ELSE q[Chosen(s)] + SumOn(q, Rest(s))[Rest(s)])
           = (IF s = {} THEN 0 ELSE q[Chosen(s)] + h[s \ {Chosen(s)}])
      BY <1>5
    <2> QED
      BY <2>1
  <1> HIDE DEF h
  <1>7. IsSumOn(q, h, M)
    BY <1>6 DEF IsSumOn
  <1> QED
    BY <1>3, <1>7

\* What the sum of a finite set is made of.
LEMMA SumUnfolds ==
    ASSUME NEW q, NEW E, IsFiniteSet(E), E # {}
    PROVE  SumOver(q, E) = q[Chosen(E)] + SumOver(q, E \ {Chosen(E)})
  <1> DEFINE D == E \ {Chosen(E)}
  <1>1. IsFiniteSet(D) /\ D \in SUBSET E
    BY FS_Subset
  <1> HIDE DEF D
  <1>2. IsSumOn(q, SumOn(q, E), E) /\ IsSumOn(q, SumOn(q, D), D)
    BY <1>1, SumExists
  <1>3. SumOn(q, E)[D] = SumOn(q, D)[D]
    BY <1>1, <1>2, SumUnique
  <1>4. SumOn(q, E)[E] = q[Chosen(E)] + SumOn(q, E)[D]
    BY <1>2 DEF IsSumOn, D
  <1> QED
    BY <1>3, <1>4, SumIsSumOn DEF D

LEMMA SumOfNothing == \A q : SumOver(q, {}) = 0
  <1>0. TAKE q
  <1>1. IsSumOn(q, SumOn(q, {}), {})
    BY FS_EmptySet, SumExists
  <1>2. SumOn(q, {})[{}] = 0
    BY <1>1 DEF IsSumOn
  <1> QED
    BY <1>2, SumIsSumOn

\* The sum of amounts is an amount.
LEMMA SumIsInt ==
    ASSUME NEW q, NEW E, IsFiniteSet(E), \A e \in E : q[e] \in Int
    PROVE  SumOver(q, E) \in Int
  <1> DEFINE Bad == {s \in SUBSET E : SumOver(q, s) \notin Int}
  <1>1. SUFFICES ASSUME Bad # {} PROVE FALSE
    OBVIOUS
  <1>2. \A B \in Bad : IsFiniteSet(B)
    BY FS_Subset
  <1> HIDE DEF Bad
  <1>3. PICK M \in Bad : \A N \in Bad : ~(N \subseteq M /\ N # M)
    BY <1>1, <1>2, SmallestSet
  <1> USE DEF Bad
  <1> DEFINE c == Chosen(M)
             R == M \ {c}
  <1>4. M # {}
    <2>1. SumOver(q, M) \notin Int
      OBVIOUS
    <2>2. 0 \in Int
      OBVIOUS
    <2> QED
      BY <2>1, <2>2, SumOfNothing, Zenon
  <1>5. c \in M /\ R \in SUBSET E /\ R \subseteq M /\ R # M
    BY <1>4, ChosenIn
  <1>6. SumOver(q, R) \in Int
    BY <1>3, <1>5
  <1>7. SumOver(q, M) = q[c] + SumOver(q, R)
    BY <1>2, <1>4, SumUnfolds
  <1>8. q[c] \in Int
    BY <1>5
  <1> HIDE DEF c, R
  <1>9. SumOver(q, M) \in Int
    BY <1>6, <1>7, <1>8
  <1> QED
    BY <1>3, <1>9

\* The order of summation does not matter: any element can be taken out.
LEMMA SumTakesOut ==
    ASSUME NEW q, NEW E, IsFiniteSet(E), \A e \in E : q[e] \in Int, NEW y \in E
    PROVE  SumOver(q, E) = SumOver(q, E \ {y}) + q[y]
  <1> DEFINE Bad == {s \in SUBSET E : \E x \in s : SumOver(q, s) # SumOver(q, s \ {x}) + q[x]}
  <1>1. SUFFICES ASSUME Bad # {} PROVE FALSE
    OBVIOUS
  <1>2. \A B \in Bad : IsFiniteSet(B)
    BY FS_Subset
  <1> HIDE DEF Bad
  <1>3. PICK M \in Bad : \A N \in Bad : ~(N \subseteq M /\ N # M)
    BY <1>1, <1>2, SmallestSet
  <1> USE DEF Bad
  <1>4. PICK x \in M : SumOver(q, M) # SumOver(q, M \ {x}) + q[x]
    BY <1>3
  <1>0. PICK c : c = Chosen(M)
    OBVIOUS
  <1> DEFINE both == M \ {x, c}
  <1>14. \A s \in SUBSET E : IsFiniteSet(s) /\ SumOver(q, s) \in Int
    BY FS_Subset, SumIsInt
  <1>5. c \in M
    BY <1>0, ChosenIn
  <1>6. SumOver(q, M) = q[c] + SumOver(q, M \ {c})
    BY <1>0, <1>14, SumUnfolds
  <1>7. q[c] \in Int /\ q[x] \in Int
    BY <1>5
  <1>8. SumOver(q, M \ {c}) \in Int /\ SumOver(q, M \ {x}) \in Int /\ SumOver(q, both) \in Int
    BY <1>14
  <1>9. c # x
    <2>1. SUFFICES ASSUME c = x PROVE FALSE
      OBVIOUS
    <2>2. SumOver(q, M) = q[x] + SumOver(q, M \ {x})
      BY <1>6, <2>1
    <2>3. SumOver(q, M) = SumOver(q, M \ {x}) + q[x]
      BY <1>7, <1>8, <2>2
    <2> QED
      BY <1>4, <2>3
  <1>10. M \ {c} \notin Bad /\ M \ {x} \notin Bad
    BY <1>3, <1>5
  <1>11. SumOver(q, M \ {c}) = SumOver(q, (M \ {c}) \ {x}) + q[x]
    BY <1>9, <1>10
  <1>12. SumOver(q, M \ {x}) = SumOver(q, (M \ {x}) \ {c}) + q[c]
    BY <1>5, <1>9, <1>10
  <1>13. (M \ {c}) \ {x} = both /\ (M \ {x}) \ {c} = both
    OBVIOUS
  <1> HIDE DEF both
  <1>15. SumOver(q, M \ {c}) = SumOver(q, both) + q[x] /\ SumOver(q, M \ {x}) = SumOver(q, both) + q[c]
    BY <1>11, <1>12, <1>13
  <1>16. q[c] + (SumOver(q, both) + q[x]) = (SumOver(q, both) + q[c]) + q[x]
    BY <1>7, <1>8
  <1> QED
    BY <1>4, <1>6, <1>15, <1>16
\* Two sums over one set add up.
LEMMA SumsAdd ==
    ASSUME NEW E, IsFiniteSet(E), NEW q, NEW r, NEW h,
           \A e \in E : q[e] \in Int /\ r[e] \in Int /\ h[e] = q[e] + r[e]
    PROVE  SumOver(h, E) = SumOver(q, E) + SumOver(r, E)
  <1> DEFINE Bad == {s \in SUBSET E : SumOver(h, s) # SumOver(q, s) + SumOver(r, s)}
  <1>1. SUFFICES ASSUME Bad # {} PROVE FALSE
    OBVIOUS
  <1>2. \A B \in Bad : IsFiniteSet(B)
    BY FS_Subset
  <1> HIDE DEF Bad
  <1>3. PICK M \in Bad : \A N \in Bad : ~(N \subseteq M /\ N # M)
    BY <1>1, <1>2, SmallestSet
  <1> USE DEF Bad
  <1> DEFINE c == Chosen(M)
             R == M \ {c}
  <1>4. M # {}
    <2>1. SumOver(h, M) # SumOver(q, M) + SumOver(r, M)
      BY <1>3
    <2>2. SumOver(h, {}) = 0 /\ SumOver(q, {}) = 0 /\ SumOver(r, {}) = 0
      BY SumOfNothing
    <2>3. SumOver(h, {}) = SumOver(q, {}) + SumOver(r, {})
      BY <2>2
    <2> QED
      BY <2>1, <2>3
  <1>5. c \in M /\ R \in SUBSET E /\ R \subseteq M /\ R # M
    BY <1>4, ChosenIn
  <1>6. SumOver(h, R) = SumOver(q, R) + SumOver(r, R)
    BY <1>3, <1>5
  <1>7. /\ SumOver(h, M) = h[c] + SumOver(h, R)
        /\ SumOver(q, M) = q[c] + SumOver(q, R)
        /\ SumOver(r, M) = r[c] + SumOver(r, R)
    BY <1>2, <1>4, SumUnfolds
  <1>8. q[c] \in Int /\ r[c] \in Int /\ h[c] = q[c] + r[c]
    BY <1>5
  <1>9. SumOver(q, R) \in Int /\ SumOver(r, R) \in Int
    BY <1>5, FS_Subset, SumIsInt
  <1>10. SumOver(h, M) # SumOver(q, M) + SumOver(r, M)
    BY <1>3
  <1> HIDE DEF c, R
  <1> QED
    BY <1>6, <1>7, <1>8, <1>9, <1>10

LEMMA SumOfZeros ==
    ASSUME NEW E, IsFiniteSet(E), NEW q, \A e \in E : q[e] = 0
    PROVE  SumOver(q, E) = 0
  <1>0. PICK sum : sum = SumOver(q, E)
    OBVIOUS
  <1>1. sum \in Int
    BY <1>0, SumIsInt
  <1>2. sum = sum + sum
    <2>1. \A e \in E : q[e] \in Int /\ q[e] = q[e] + q[e]
      OBVIOUS
    <2> QED
      BY <1>0, <2>1, SumsAdd
  <1>3. sum = 0
    BY <1>1, <1>2
  <1> QED
    BY <1>0, <1>3

\* A sum depends on its set's elements only.
LEMMA SumsAgree ==
    ASSUME NEW E, IsFiniteSet(E), NEW q, NEW r, \A e \in E : q[e] \in Int /\ r[e] = q[e]
    PROVE  SumOver(r, E) = SumOver(q, E)
  <1> DEFINE z == [e \in E |-> 0]
  <1>1. SumOver(z, E) = 0
    BY SumOfZeros
  <1>2. \A e \in E : q[e] \in Int /\ z[e] \in Int /\ r[e] = q[e] + z[e]
    OBVIOUS
  <1> HIDE DEF z
  <1>3. SumOver(r, E) = SumOver(q, E) + SumOver(z, E)
    BY <1>2, SumsAdd
  <1>4. SumOver(q, E) \in Int
    BY SumIsInt
  <1> QED
    BY <1>1, <1>3, <1>4

\* One summand changes.
LEMMA SumChangesAt ==
    ASSUME NEW E, IsFiniteSet(E), NEW q, NEW r, NEW y \in E,
           \A e \in E : q[e] \in Int /\ r[e] \in Int /\ (e # y => r[e] = q[e])
    PROVE  SumOver(r, E) = SumOver(q, E) - q[y] + r[y]
  <1>1. IsFiniteSet(E \ {y})
    BY FS_Subset
  <1>2. SumOver(r, E \ {y}) = SumOver(q, E \ {y}) /\ SumOver(q, E \ {y}) \in Int
    BY <1>1, SumsAgree, SumIsInt
  <1>3. SumOver(q, E) = SumOver(q, E \ {y}) + q[y]
    BY SumTakesOut
  <1>4. SumOver(r, E) = SumOver(r, E \ {y}) + r[y]
    BY SumTakesOut
  <1> QED
    BY <1>2, <1>3, <1>4

\* A sum of natural numbers is one, and none of them is more than it.
LEMMA SumIsNat ==
    ASSUME NEW E, IsFiniteSet(E), NEW q, \A e \in E : q[e] \in Nat
    PROVE  SumOver(q, E) \in Nat /\ \A y \in E : q[y] <= SumOver(q, E)
  <1> DEFINE Bad == {s \in SUBSET E : SumOver(q, s) \notin Nat}
  <1>1. SUFFICES Bad = {}
    <2>1. ASSUME Bad = {}, NEW y \in E PROVE q[y] <= SumOver(q, E)
      <3>1. SumOver(q, E) = SumOver(q, E \ {y}) + q[y]
        BY SumTakesOut
      <3>2. SumOver(q, E \ {y}) \in Nat /\ q[y] \in Nat
        BY <2>1
      <3> QED
        BY <3>1, <3>2
    <2> QED
      BY <2>1
  <1>2. SUFFICES ASSUME Bad # {} PROVE FALSE
    OBVIOUS
  <1>3. \A B \in Bad : IsFiniteSet(B)
    BY FS_Subset
  <1> HIDE DEF Bad
  <1>4. PICK M \in Bad : \A N \in Bad : ~(N \subseteq M /\ N # M)
    BY <1>2, <1>3, SmallestSet
  <1> USE DEF Bad
  <1> DEFINE c == Chosen(M)
             R == M \ {c}
  <1>5. M # {}
    BY SumOfNothing
  <1>6. c \in M /\ R \in SUBSET E /\ R \subseteq M /\ R # M
    BY <1>5, ChosenIn
  <1>7. SumOver(q, R) \in Nat
    BY <1>4, <1>6
  <1>8. SumOver(q, M) = q[c] + SumOver(q, R)
    BY <1>3, <1>5, SumUnfolds
  <1>9. q[c] \in Nat
    BY <1>6
  <1>10. SumOver(q, M) \notin Nat
    BY <1>4
  <1> HIDE DEF c, R
  <1> QED
    BY <1>7, <1>8, <1>9, <1>10
=============================================================================
