-------------------------- MODULE RewardAwardsProofs --------------------------
(***************************************************************************)
(* The wallet is the sum of its ledger, a grant is whole, a settled award   *)
(* is final and a cap is kept, for every set of rules, messages and workers. *)
(***************************************************************************)
EXTENDS RewardAwards, Aggregates

-----------------------------------------------------------------------------
(* Sums of ledger entries.                                                   *)

Sum(S) == MapThenSumSet(LAMBDA e : e.amount, S)

Amounts(S) == [e \in S |-> e.amount]

LEMMA SumOfAmounts == \A S : Sum(S) = SumOver(Amounts(S), S)
  <1> TAKE S
  <1> DEFINE q == Amounts(S)
             Counts(f) == f = [s \in SUBSET S |->
                                 IF s = {} THEN 0 ELSE Chosen(s).amount + f[s \ {Chosen(s)}]]
  <1>1. \A f : Counts(f) <=> IsSumOn(q, f, S)
    <2> TAKE f
    <2>1. \A s \in SUBSET S : s # {} => Chosen(s).amount = q[Chosen(s)]
      BY ChosenIn DEF Amounts
    <2>2. [s \in SUBSET S |-> IF s = {} THEN 0 ELSE Chosen(s).amount + f[s \ {Chosen(s)}]]
        = [s \in SUBSET S |-> IF s = {} THEN 0 ELSE q[Chosen(s)] + f[s \ {Chosen(s)}]]
      <3> HIDE DEF q
      <3> QED
        BY <2>1
    <2> QED
      BY <2>2 DEF IsSumOn
  <1>2. Sum(S) = (CHOOSE f : Counts(f))[S]
    BY DEF Sum, Chosen, MapThenSumSet, MapThenFoldSet
  <1>3. (CHOOSE f : Counts(f)) = SumOn(q, S)
    <2> HIDE DEF Counts, q
    <2> QED
      BY <1>1 DEF SumOn
  <1> QED
    BY <1>2, <1>3, SumIsSumOn

LEMMA NoEntries == Sum({}) = 0
  BY SumOfAmounts, SumOfNothing

LEMMA AmountsAddUp ==
    ASSUME NEW E, IsFiniteSet(E), \A e \in E : e.amount \in Int
    PROVE  /\ Sum(E) \in Int
           /\ \A y \in E : Sum(E) = Sum(E \ {y}) + y.amount
  <1>1. \A e \in E : Amounts(E)[e] = e.amount /\ e.amount \in Int
    BY DEF Amounts
  <1>2. Sum(E) \in Int
    BY <1>1, SumIsInt, SumOfAmounts
  <1>3. ASSUME NEW y \in E PROVE Sum(E) = Sum(E \ {y}) + y.amount
    <2> DEFINE R == E \ {y}
    <2>1. SumOver(Amounts(E), E) = SumOver(Amounts(E), R) + y.amount
      BY <1>1, SumTakesOut
    <2>2. IsFiniteSet(R) /\ \A e \in R : Amounts(R)[e] \in Int /\ Amounts(E)[e] = Amounts(R)[e]
      BY <1>1, FS_Subset DEF Amounts
    <2>3. SumOver(Amounts(E), R) = SumOver(Amounts(R), R)
      <3> HIDE DEF R
      <3> QED
        BY <2>2, SumsAgree
    <2> QED
      BY <2>1, <2>3, SumOfAmounts
  <1> QED
    BY <1>2, <1>3

-----------------------------------------------------------------------------
(* Numbers.                                                                  *)

LEMMA MinIn ==
    ASSUME NEW S \in SUBSET Rules, S # {}
    PROVE  Min(S) \in S
  <1>1. S \in SUBSET Nat
    BY RewardAssumption DEF RewardAssumption
  <1>2. \E m \in S : \A n \in S : m <= n
    BY <1>1, LeastNumber
  <1> QED
    BY <1>2 DEF Min

LEMMA ProductGrows ==
    ASSUME NEW m \in Int, NEW n \in Int, m <= n, NEW b \in Nat
    PROVE  m * b <= n * b
  OBVIOUS

\* A whole number of conversions costs no more than the balance.
LEMMA TimesAffordable ==
    ASSUME NEW v, v.points \in Int
    PROVE  /\ Times(v) \in Int
           /\ Times(v) * Burn \in Int
           /\ Times(v) * Burn <= v.points
  <1> DEFINE n == v.points \div Burn
  <1>1. Burn \in Nat \ {0} /\ MaxConversions \in Nat
    BY RewardAssumption DEF RewardAssumption
  <1>2. n \in Int /\ n * Burn <= v.points /\ n * Burn \in Int
    BY <1>1
  <1>3. Times(v) = IF n > MaxConversions THEN MaxConversions ELSE n
    BY DEF Times
  <1> HIDE DEF n
  <1>4. Times(v) \in Int /\ Times(v) <= n
    BY <1>1, <1>2, <1>3
  <1> DEFINE t == Times(v)
  <1>5. t \in Int /\ t <= n
    BY <1>4
  <1> HIDE DEF t
  <1>6. t * Burn <= n * Burn
    BY <1>1, <1>2, <1>5, ProductGrows
  <1>7. t * Burn \in Int
    BY <1>1, <1>5
  <1>8. t * Burn <= v.points
    BY <1>2, <1>6, <1>7
  <1> QED
    BY <1>5, <1>7, <1>8 DEF t

-----------------------------------------------------------------------------
(* The wallet.                                                               *)

Legs == PointsLegs \cup MoneyLegs

\* The wallet and the ledger behind it: the first two sums are
\* BalanceIsLedgerSum; what a conversion takes is never positive.
WalletOK(v) ==
    /\ v \in ValueType
    /\ IsFiniteSet(v.entries)
    /\ v.points = Total(v.entries, PointsLegs)
    /\ v.money = Total(v.entries, MoneyLegs)
    /\ \A e \in v.entries : e.leg = "out" => e.amount <= 0

LEMMA TotalIsSum ==
    \A entries, legs : Total(entries, legs) = Sum({e \in entries : e.leg \in legs})
  BY DEF Total, Sum

\* An entry that is new counts once, in the total of its own leg.
LEMMA TotalAdds ==
    ASSUME NEW E \in SUBSET Entry, IsFiniteSet(E), NEW n \in Entry, n \notin E, NEW legs
    PROVE  /\ Total(E, legs) \in Int
           /\ n.leg \in legs => Total(E \cup {n}, legs) = Total(E, legs) + n.amount
           /\ n.leg \notin legs => Total(E \cup {n}, legs) = Total(E, legs)
  <1> DEFINE S == {e \in E : e.leg \in legs}
             T == {e \in E \cup {n} : e.leg \in legs}
  <1>1. IsFiniteSet(S) /\ \A e \in S : e.amount \in Int
    BY FS_Subset DEF Entry
  <1>2. Sum(S) \in Int
    BY <1>1, AmountsAddUp
  <1>3. Total(E, legs) = Sum(S) /\ Total(E \cup {n}, legs) = Sum(T)
    BY TotalIsSum
  <1>4. ASSUME n.leg \in legs PROVE Sum(T) = Sum(S) + n.amount
    <2>1. T = S \cup {n} /\ n \in T /\ T \ {n} = S
      BY <1>4
    <2>2. IsFiniteSet(T)
      BY <1>1, <2>1, FS_AddElement
    <2>3. \A e \in T : e.amount \in Int
      BY DEF Entry
    <2> HIDE DEF S, T
    <2> QED
      BY <2>1, <2>2, <2>3, AmountsAddUp
  <1>5. ASSUME n.leg \notin legs PROVE T = S
    BY <1>5
  <1> HIDE DEF S, T
  <1> QED
    BY <1>2, <1>3, <1>4, <1>5

Key(of, leg, amount) == [of |-> of, leg |-> leg, amount |-> amount]

\* Value p is v with entry n posted to it.
Posted(v, p, n) ==
    /\ n \in Entry
    /\ n \notin v.entries
    /\ p \in ValueType
    /\ p.entries = v.entries \cup {n}
    /\ p.points = IF n.leg \in PointsLegs THEN v.points + n.amount ELSE v.points
    /\ p.money = IF n.leg \in MoneyLegs THEN v.money + n.amount ELSE v.money
    /\ p.rights = v.rights

\* What a posting does, once and never again under its key.
LEMMA PostDoes ==
    ASSUME NEW v, WalletOK(v), NEW of \in Awards \cup Adjustments, NEW leg \in Legs,
           NEW amount \in Int
    PROVE  IF HasEntry(v, of, leg) THEN Post(v, of, leg, amount) = v
           ELSE Posted(v, Post(v, of, leg, amount), Key(of, leg, amount))
  <1> DEFINE n == Key(of, leg, amount)
  <1>1. n \in Entry
    BY DEF Entry, Legs, Key
  <1>2. n.of = of /\ n.leg = leg /\ n.amount = amount
    BY DEF Key
  <1>3. ~HasEntry(v, of, leg) => n \notin v.entries
    BY <1>2 DEF HasEntry
  <1>4. v \in ValueType /\ v.points \in Int /\ v.money \in Int /\ v.entries \in SUBSET Entry
    BY DEF WalletOK, ValueType
  <1>5. ASSUME ~HasEntry(v, of, leg)
        PROVE  Posted(v, Post(v, of, leg, amount), n)
    <2>1. Post(v, of, leg, amount)
            = [points |-> IF leg \in PointsLegs THEN v.points + amount ELSE v.points,
               money |-> IF leg \in MoneyLegs THEN v.money + amount ELSE v.money,
               entries |-> v.entries \cup {n}, rights |-> v.rights]
      BY <1>4, <1>5 DEF Post, Moved, ValueType, Key
    <2> HIDE DEF n
    <2>2. v.entries \cup {n} \in SUBSET Entry
      BY <1>1, <1>4
    <2>3. Post(v, of, leg, amount) \in ValueType
      BY <1>4, <2>1, <2>2 DEF ValueType
    <2> QED
      BY <1>1, <1>2, <1>3, <1>5, <2>1, <2>3 DEF Posted
  <1>6. HasEntry(v, of, leg) => Post(v, of, leg, amount) = v
    BY DEF Post
  <1> QED
    BY <1>5, <1>6

\* The balance moves with its entry.
LEMMA PostKeeps ==
    ASSUME NEW v, WalletOK(v), NEW of \in Awards \cup Adjustments, NEW leg \in Legs,
           NEW amount \in Int, leg = "out" => amount <= 0
    PROVE  WalletOK(Post(v, of, leg, amount))
  <1> DEFINE n == Key(of, leg, amount)
             p == Post(v, of, leg, amount)
  <1>1. CASE HasEntry(v, of, leg)
    <2>1. p = v
      BY <1>1, PostDoes
    <2> HIDE DEF p
    <2>2. WalletOK(p)
      BY <2>1
    <2> QED
      BY <2>2 DEF p
  <1>2. CASE ~HasEntry(v, of, leg)
    <2>0. Posted(v, p, n)
      BY <1>2, PostDoes
    <2>2. n.leg = leg /\ n.amount = amount
      BY DEF Key
    <2> HIDE DEF n, p
    <2>1. /\ n \in Entry /\ n \notin v.entries
          /\ p \in ValueType
          /\ p.entries = v.entries \cup {n}
          /\ p.points = IF leg \in PointsLegs THEN v.points + amount ELSE v.points
          /\ p.money = IF leg \in MoneyLegs THEN v.money + amount ELSE v.money
      BY <2>0, <2>2 DEF Posted
    <2>3. v.entries \in SUBSET Entry /\ IsFiniteSet(v.entries)
      BY DEF WalletOK, ValueType
    <2>4. IsFiniteSet(p.entries)
      BY <2>1, <2>3, FS_AddElement
    <2>5. p.points = Total(p.entries, PointsLegs)
      BY <2>1, <2>2, <2>3, TotalAdds DEF WalletOK
    <2>6. p.money = Total(p.entries, MoneyLegs)
      BY <2>1, <2>2, <2>3, TotalAdds DEF WalletOK
    <2>7. \A e \in p.entries : e.leg = "out" => e.amount <= 0
      BY <2>1, <2>2 DEF WalletOK
    <2>8. WalletOK(p)
      BY <2>1, <2>4, <2>5, <2>6, <2>7 DEF WalletOK
    <2> QED
      BY <2>8 DEF p
  <1> QED
    BY <1>1, <1>2

-----------------------------------------------------------------------------
(* Benefits and their compensation.                                          *)

LegsIn(v, a) == {e.leg : e \in {x \in v.entries : x.of = a}}

\* Nothing is deleted, and only what belongs to award a is added.
Grown(v, u, a) ==
    /\ v.entries \subseteq u.entries
    /\ \A e \in u.entries \ v.entries : e.of = a
    /\ \A b \in Awards \ {a} : u.rights[b] = v.rights[b]

LEMMA GrownTwice ==
    ASSUME NEW v, NEW u, NEW x, NEW a, Grown(v, u, a), Grown(u, x, a)
    PROVE  Grown(v, x, a)
  BY DEF Grown

LEMMA GrownNot ==
    ASSUME NEW v, NEW a PROVE Grown(v, v, a)
  BY DEF Grown

LEMMA GrownElsewhere ==
    ASSUME NEW v, NEW u, NEW a, Grown(v, u, a), NEW b, b # a
    PROVE  LegsIn(u, b) = LegsIn(v, b)
  <1>1. {x \in u.entries : x.of = b} = {x \in v.entries : x.of = b}
    BY DEF Grown
  <1> QED
    BY <1>1 DEF LegsIn

LEMMA PostGrows ==
    ASSUME NEW v, WalletOK(v), NEW a \in Awards \cup Adjustments, NEW leg \in Legs,
           NEW amount \in Int
    PROVE  /\ Grown(v, Post(v, a, leg, amount), a)
           /\ LegsIn(Post(v, a, leg, amount), a) = LegsIn(v, a) \cup {leg}
           /\ Post(v, a, leg, amount).rights = v.rights
  <1> DEFINE n == Key(a, leg, amount)
             p == Post(v, a, leg, amount)
  <1>1. CASE HasEntry(v, a, leg)
    <2>1. p = v
      BY <1>1, PostDoes
    <2>2. leg \in LegsIn(v, a)
      BY <1>1 DEF HasEntry, LegsIn
    <2> HIDE DEF p
    <2>3. Grown(v, p, a) /\ LegsIn(p, a) = LegsIn(v, a) \cup {leg} /\ p.rights = v.rights
      BY <2>1, <2>2, GrownNot
    <2> QED
      BY <2>3 DEF p
  <1>2. CASE ~HasEntry(v, a, leg)
    <2>1. p.entries = v.entries \cup {n} /\ p.rights = v.rights
      BY <1>2, PostDoes DEF Posted
    <2>2. n.of = a /\ n.leg = leg
      BY DEF Key
    <2> HIDE DEF p, n
    <2>3. Grown(v, p, a)
      BY <2>1, <2>2 DEF Grown
    <2>4. {x \in p.entries : x.of = a} = {x \in v.entries : x.of = a} \cup {n}
      BY <2>1, <2>2
    <2>5. LegsIn(p, a) = LegsIn(v, a) \cup {leg}
      BY <2>2, <2>4 DEF LegsIn
    <2> QED
      BY <2>1, <2>3, <2>5 DEF p
  <1> QED
    BY <1>1, <1>2

LEMMA AwardRule == \A a \in Awards : a[1] \in Rules
  BY DEF Awards, MessageAwards, MessageRules, ThresholdRules

LEMMA EarnPointsDoes ==
    ASSUME NEW v, WalletOK(v), NEW a \in Awards
    PROVE  LET u == EarnPoints(v, a) IN
           /\ WalletOK(u) /\ Grown(v, u, a)
           /\ LegsIn(u, a) = LegsIn(v, a)
                               \cup IF "points" \in Benefits[a[1]] THEN {"earn"} ELSE {}
           /\ u.rights = v.rights
           /\ u.points >= v.points
  <1>1. Earn \in Nat /\ Earn \in Int
    BY RewardAssumption DEF RewardAssumption
  <1>2. "earn" \in Legs /\ "earn" \in PointsLegs
    BY DEF Legs, PointsLegs
  <1>3. v.points \in Int
    BY DEF WalletOK, ValueType
  <1>4. CASE "points" \notin Benefits[a[1]]
    <2>1. EarnPoints(v, a) = v
      BY <1>4 DEF EarnPoints
    <2>2. v.points >= v.points
      BY <1>3
    <2>3. LegsIn(v, a) = LegsIn(v, a) \cup IF "points" \in Benefits[a[1]] THEN {"earn"} ELSE {}
      BY <1>4
    <2> QED
      BY <2>1, <2>2, <2>3, GrownNot
  <1>5. CASE "points" \in Benefits[a[1]]
    <2> DEFINE p == Post(v, a, "earn", Earn)
    <2>1. EarnPoints(v, a) = p
      BY <1>5 DEF EarnPoints
    <2>2. WalletOK(p)
      BY <1>1, <1>2, PostKeeps
    <2>3. Grown(v, p, a) /\ LegsIn(p, a) = LegsIn(v, a) \cup {"earn"} /\ p.rights = v.rights
      BY <1>1, <1>2, PostGrows
    <2>40. p = v \/ Posted(v, p, Key(a, "earn", Earn))
      BY <1>1, <1>2, PostDoes
    <2> HIDE DEF p
    <2>4. p = v \/ p.points = v.points + Earn
      BY <2>40, <1>1, <1>2 DEF Posted, Key
    <2>5. p.points >= v.points
      BY <1>1, <1>3, <2>4
    <2> QED
      BY <1>5, <2>1, <2>2, <2>3, <2>5
  <1> QED
    BY <1>4, <1>5

\* Points go out only as far as there are any.
LEMMA ConvertDoes ==
    ASSUME NEW v, WalletOK(v), NEW a \in Awards, Affordable(v, a)
    PROVE  LET u == Convert(v, a) IN
           /\ WalletOK(u) /\ Grown(v, u, a)
           /\ LegsIn(u, a) = LegsIn(v, a)
                               \cup IF "convert" \in Benefits[a[1]] THEN {"out", "in"} ELSE {}
           /\ u.rights = v.rights
           /\ u.points >= v.points \/ u.points >= 0
  <1>1. v.points \in Int
    BY DEF WalletOK, ValueType
  <1>2. CASE "convert" \notin Benefits[a[1]]
    <2>1. Convert(v, a) = v
      BY <1>2 DEF Convert
    <2>2. v.points >= v.points
      BY <1>1
    <2>3. LegsIn(v, a) = LegsIn(v, a) \cup IF "convert" \in Benefits[a[1]] THEN {"out", "in"} ELSE {}
      BY <1>2
    <2> QED
      BY <2>1, <2>2, <2>3, GrownNot
  <1>3. CASE "convert" \in Benefits[a[1]]
    <2> DEFINE cost == Times(v) * Burn
               n == Times(v)
               p == Post(v, a, "out", -cost)
               q == Post(p, a, "in", n)
    <2>1. Convert(v, a) = q
      BY <1>3 DEF Convert
    <2>2. n \in Int /\ cost \in Int /\ cost <= v.points
      BY <1>1, TimesAffordable
    <2>3. n >= 1
      BY <1>3 DEF Affordable
    <2>4. cost >= 0
      <3>1. Burn \in Nat
        BY RewardAssumption DEF RewardAssumption
      <3> HIDE DEF n
      <3>2. n * Burn >= 0
        BY <2>2, <2>3, <3>1
      <3> QED
        BY <3>2 DEF n
    <2> HIDE DEF n, cost
    <2>5. -cost \in Int /\ -cost <= 0
      BY <2>2, <2>4
    <2>6. "out" \in Legs /\ "in" \in Legs /\ "out" \in PointsLegs /\ "in" \notin PointsLegs
      BY DEF Legs, PointsLegs, MoneyLegs
    <2>7. WalletOK(p) /\ Grown(v, p, a) /\ LegsIn(p, a) = LegsIn(v, a) \cup {"out"}
            /\ p.rights = v.rights
      BY <2>5, <2>6, PostKeeps, PostGrows
    <2>80. p = v \/ Posted(v, p, Key(a, "out", -cost))
      BY <2>5, <2>6, PostDoes
    <2> HIDE DEF p
    <2>8. p = v \/ p.points = v.points + (-cost)
      BY <2>80, <2>5, <2>6 DEF Posted, Key
    <2>9. WalletOK(q) /\ Grown(p, q, a) /\ LegsIn(q, a) = LegsIn(p, a) \cup {"in"}
            /\ q.rights = p.rights
      BY <2>2, <2>6, <2>7, PostKeeps, PostGrows
    <2>100. q = p \/ Posted(p, q, Key(a, "in", n))
      BY <2>2, <2>6, <2>7, PostDoes
    <2> HIDE DEF q
    <2>10. q = p \/ q.points = p.points
      BY <2>100, <2>2, <2>6, <2>7 DEF Posted, Key
    <2>11. q.points >= v.points \/ q.points >= 0
      BY <1>1, <2>2, <2>8, <2>10
    <2>12. Grown(v, q, a)
      BY <2>7, <2>9, GrownTwice
    <2>13. LegsIn(q, a) = LegsIn(v, a) \cup {"out", "in"}
      BY <2>7, <2>9
    <2> QED
      BY <1>3, <2>1, <2>7, <2>9, <2>11, <2>12, <2>13
  <1> QED
    BY <1>2, <1>3

LEMMA RightSet ==
    ASSUME NEW v, WalletOK(v), NEW a \in Awards, NEW s \in RightStatuses
    PROVE  LET u == [v EXCEPT !.rights[a] = s] IN
           /\ WalletOK(u)
           /\ Grown(v, u, a)
           /\ u.entries = v.entries
           /\ u.points = v.points
           /\ u.rights[a] = s
  <1> DEFINE u == [v EXCEPT !.rights[a] = s]
  <1>1. v \in ValueType
    BY DEF WalletOK
  <1>3. /\ u.points = v.points /\ u.money = v.money /\ u.entries = v.entries
        /\ u.rights = [v.rights EXCEPT ![a] = s]
        /\ u \in [points: {v.points}, money: {v.money}, entries: {v.entries},
                  rights: {[v.rights EXCEPT ![a] = s]}]
    BY <1>1 DEF ValueType
  <1>2. u \in ValueType
    BY <1>1, <1>3 DEF ValueType
  <1>4. v.rights \in [Awards -> RightStatuses]
    BY <1>1 DEF ValueType
  <1> HIDE DEF u
  <1>5. WalletOK(u)
    BY <1>2, <1>3 DEF WalletOK
  <1>6. Grown(v, u, a) /\ u.rights[a] = s
    BY <1>3, <1>4 DEF Grown
  <1> QED
    BY <1>3, <1>5, <1>6 DEF u

\* All the benefits of the rule, and nothing of anybody else's.
LEMMA AppliedDoes ==
    ASSUME NEW v, WalletOK(v), NEW a \in Awards, Affordable(EarnPoints(v, a), a)
    PROVE  LET u == Applied(v, a) IN
           /\ WalletOK(u) /\ Grown(v, u, a)
           /\ LegsIn(u, a) = LegsIn(v, a) \cup Promised(a[1])
           /\ "entitlement" \in Benefits[a[1]] => u.rights[a] = "issued"
           /\ u.points >= v.points \/ u.points >= 0
  <1> DEFINE p == EarnPoints(v, a)
             q == Convert(p, a)
             u == IssueRight(q, a)
  <1>1. /\ WalletOK(p) /\ Grown(v, p, a) /\ p.points >= v.points
        /\ LegsIn(p, a) = LegsIn(v, a)
                            \cup IF "points" \in Benefits[a[1]] THEN {"earn"} ELSE {}
    BY EarnPointsDoes
  <1>2. Affordable(p, a)
    OBVIOUS
  <1> HIDE DEF p
  <1>3. /\ WalletOK(q) /\ Grown(p, q, a)
        /\ q.points >= p.points \/ q.points >= 0
        /\ LegsIn(q, a) = LegsIn(p, a)
                            \cup IF "convert" \in Benefits[a[1]] THEN {"out", "in"} ELSE {}
    BY <1>1, <1>2, ConvertDoes
  <1> HIDE DEF q
  <1>4. /\ WalletOK(u) /\ Grown(q, u, a) /\ u.entries = q.entries /\ u.points = q.points
        /\ "entitlement" \in Benefits[a[1]] => u.rights[a] = "issued"
    <2>1. "issued" \in RightStatuses
      BY DEF RightStatuses
    <2>2. CASE "entitlement" \in Benefits[a[1]]
      <3>1. u = [q EXCEPT !.rights[a] = "issued"]
        BY <2>2 DEF IssueRight
      <3> HIDE DEF u
      <3> QED
        BY <1>3, <2>1, <3>1, RightSet
    <2>3. CASE "entitlement" \notin Benefits[a[1]]
      <3>1. u = q
        BY <2>3 DEF IssueRight
      <3> QED
        BY <1>3, <2>3, <3>1, GrownNot
    <2> QED
      BY <2>2, <2>3
  <1>5. Applied(v, a) = u
    BY DEF Applied, p, q
  <1> HIDE DEF u
  <1>6. Grown(v, u, a)
    BY <1>1, <1>3, <1>4, GrownTwice
  <1>7. LegsIn(u, a) = LegsIn(v, a) \cup Promised(a[1])
    <2>1. LegsIn(u, a) = LegsIn(q, a)
      BY <1>4 DEF LegsIn
    <2> QED
      BY <1>1, <1>3, <2>1 DEF Promised
  <1>8. u.points >= v.points \/ u.points >= 0
    <2>1. v.points \in Int /\ p.points \in Int /\ q.points \in Int
      BY <1>1, <1>3 DEF WalletOK, ValueType
    <2> QED
      BY <1>1, <1>3, <1>4, <2>1
  <1> QED
    BY <1>4, <1>5, <1>6, <1>7, <1>8

\* One leg back: points fall only by what was earned.
LEMMA UndoneDoes ==
    ASSUME NEW v, WalletOK(v), NEW a \in Awards, NEW leg \in {"earn", "out", "in"}
    PROVE  LET u == Undone(v, a, leg) IN
           /\ WalletOK(u) /\ Grown(v, u, a)
           /\ u.points \in Int
           /\ leg # "earn" => u.points >= v.points
           /\ leg = "earn" /\ u.points < v.points =>
                 \E e \in u.entries \ v.entries : e.leg = "earn_back"
  <1> DEFINE recorded == {e \in v.entries : e.of = a /\ e.leg = leg}
             x == CHOOSE e \in recorded : TRUE
  <1>1. v.points \in Int /\ v.entries \in SUBSET Entry
    BY DEF WalletOK, ValueType
  <1>2. CASE recorded = {}
    <2>1. Undone(v, a, leg) = v
      BY <1>2 DEF Undone
    <2>2. v.points >= v.points /\ ~(v.points < v.points)
      BY <1>1
    <2> QED
      BY <1>1, <2>1, <2>2, GrownNot
  <1>3. CASE recorded # {}
    <2>1. x \in recorded
      BY <1>3
    <2>2. x \in v.entries /\ x.leg = leg
      BY <2>1
    <2> HIDE DEF x
    <2>3. x.amount \in Int /\ (leg = "out" => x.amount <= 0)
      BY <1>1, <2>2 DEF Entry, WalletOK
    <2>4. Undone(v, a, leg) = Post(v, a, Undo(leg), -x.amount)
      BY <1>3 DEF Undone, x
    <2>5. /\ Undo(leg) \in Legs /\ Undo(leg) # "out"
          /\ leg = "earn" => Undo(leg) = "earn_back"
          /\ leg = "in" => Undo(leg) \notin PointsLegs
      BY DEF Undo, Legs, PointsLegs, MoneyLegs
    <2> DEFINE b == Undo(leg)
               amount == -x.amount
               p == Post(v, a, b, amount)
               n == Key(a, b, amount)
    <2>6. amount \in Int /\ (leg = "out" => amount >= 0)
      BY <2>3
    <2>7. n.leg = b /\ n.amount = amount
      BY DEF Key
    <2> HIDE DEF b, amount
    <2>8. b \in Legs /\ b # "out" /\ (leg = "earn" => b = "earn_back")
            /\ (leg = "in" => b \notin PointsLegs)
      BY <2>5 DEF b
    <2>9. WalletOK(p) /\ Grown(v, p, a)
      BY <2>6, <2>8, PostKeeps, PostGrows
    <2>15. p = v \/ Posted(v, p, n)
      BY <2>6, <2>8, PostDoes
    <2> HIDE DEF p, n
    <2>10. \/ p = v
           \/ /\ n \notin v.entries
              /\ p.entries = v.entries \cup {n}
              /\ p.points = IF b \in PointsLegs THEN v.points + amount ELSE v.points
      BY <2>7, <2>15 DEF Posted
    <2>11. p.points \in Int
      BY <2>9 DEF WalletOK, ValueType
    <2>12. leg # "earn" => p.points >= v.points
      BY <1>1, <2>6, <2>8, <2>10
    <2>13. leg = "earn" /\ p.points < v.points =>
              \E e \in p.entries \ v.entries : e.leg = "earn_back"
      BY <1>1, <2>7, <2>8, <2>10
    <2>14. Undone(v, a, leg) = p
      BY <2>4 DEF p, b, amount
    <2> QED
      BY <2>9, <2>11, <2>12, <2>13, <2>14
  <1> QED
    BY <1>2, <1>3

LEMMA CompensatedDoes ==
    ASSUME NEW v, WalletOK(v), NEW a \in Awards
    PROVE  LET u == Compensated(v, a) IN
           /\ WalletOK(u) /\ Grown(v, u, a)
           /\ u.points < v.points => \E e \in u.entries \ v.entries : e.leg = "earn_back"
  <1> DEFINE p == Undone(v, a, "in")
             q == Undone(p, a, "out")
             x == Undone(q, a, "earn")
             right == IF x.rights[a] = "issued" THEN "revoked" ELSE x.rights[a]
             u == [x EXCEPT !.rights[a] = right]
  <1>1. v.points \in Int
    BY DEF WalletOK, ValueType
  <1>2. WalletOK(p) /\ Grown(v, p, a) /\ p.points \in Int /\ p.points >= v.points
    BY UndoneDoes
  <1> HIDE DEF p
  <1>3. WalletOK(q) /\ Grown(p, q, a) /\ q.points \in Int /\ q.points >= p.points
    BY <1>2, UndoneDoes
  <1> HIDE DEF q
  <1>4. /\ WalletOK(x) /\ Grown(q, x, a) /\ x.points \in Int
        /\ x.points < q.points => \E e \in x.entries \ q.entries : e.leg = "earn_back"
    BY <1>3, UndoneDoes
  <1>5. Compensated(v, a) = u
    BY DEF Compensated, p, q
  <1> HIDE DEF x
  <1>6. right \in RightStatuses
    BY <1>4 DEF WalletOK, ValueType, RightStatuses
  <1> HIDE DEF right
  <1>7. WalletOK(u) /\ Grown(x, u, a) /\ u.entries = x.entries /\ u.points = x.points
    BY <1>4, <1>6, RightSet
  <1> HIDE DEF u
  <1>8. v.entries \subseteq q.entries
    BY <1>2, <1>3 DEF Grown
  <1>9. u.points < v.points => \E e \in u.entries \ v.entries : e.leg = "earn_back"
    BY <1>1, <1>2, <1>3, <1>4, <1>7, <1>8
  <1> QED
    BY <1>2, <1>3, <1>4, <1>5, <1>7, <1>9, GrownTwice

-----------------------------------------------------------------------------
(* The list a sweep takes.                                                   *)

\* The awards that are held among the first n that are due, for n up to k.
IsHeldUpTo(f, k) ==
    f = [n \in 0 .. k |->
            IF n = 0 THEN <<>>
            ELSE IF awards[due[n]].status = "held" THEN Append(f[n - 1], due[n])
            ELSE f[n - 1]]

LEMMA HeldUpToExists ==
    ASSUME NEW N \in Nat PROVE \A k \in 0 .. N : \E f : IsHeldUpTo(f, k)
  <1> DEFINE Bad == {k \in 0 .. N : ~ \E f : IsHeldUpTo(f, k)}
  <1>1. SUFFICES ASSUME Bad # {} PROVE FALSE
    OBVIOUS
  <1>2. Bad \in SUBSET Nat
    OBVIOUS
  <1> HIDE DEF Bad
  <1>3. PICK m \in Bad : \A n \in Bad : m <= n
    BY <1>1, <1>2, LeastNumber
  <1> USE DEF Bad
  <1>4. CASE m = 0
    <2> DEFINE f == [n \in 0 .. 0 |-> <<>>]
    <2>1. f = [n \in 0 .. 0 |->
                  IF n = 0 THEN <<>>
                  ELSE IF awards[due[n]].status = "held" THEN Append(f[n - 1], due[n])
                  ELSE f[n - 1]]
      OBVIOUS
    <2> HIDE DEF f
    <2>2. IsHeldUpTo(f, 0)
      BY <2>1 DEF IsHeldUpTo
    <2> QED
      BY <1>3, <1>4, <2>2
  <1>5. CASE m # 0
    <2>1. m - 1 \in 0 .. N /\ m - 1 \notin Bad /\ m \in Nat
      BY <1>3, <1>5
    <2>2. PICK f : IsHeldUpTo(f, m - 1)
      BY <2>1
    <2> DEFINE last == IF awards[due[m]].status = "held" THEN Append(f[m - 1], due[m])
                       ELSE f[m - 1]
               g == [n \in 0 .. m |-> IF n = m THEN last ELSE f[n]]
    <2>3. \A n \in 0 .. m :
             (IF n = m THEN last ELSE f[n])
               = IF n = 0 THEN <<>>
                 ELSE IF awards[due[n]].status = "held" THEN Append(g[n - 1], due[n])
                 ELSE g[n - 1]
      <3> SUFFICES ASSUME NEW n \in 0 .. m
                   PROVE  (IF n = m THEN last ELSE f[n])
                             = IF n = 0 THEN <<>>
                               ELSE IF awards[due[n]].status = "held"
                                    THEN Append(g[n - 1], due[n]) ELSE g[n - 1]
        OBVIOUS
      <3>1. n # 0 => n - 1 \in 0 .. m /\ n - 1 # m
        BY <2>1
      <3>2. n # 0 => g[n - 1] = f[n - 1]
        BY <3>1
      <3>3. CASE n = m
        BY <1>5, <3>2, <3>3
      <3>4. CASE n # m
        <4>1. n \in 0 .. (m - 1)
          BY <2>1, <3>4
        <4>2. f[n] = IF n = 0 THEN <<>>
                     ELSE IF awards[due[n]].status = "held" THEN Append(f[n - 1], due[n])
                     ELSE f[n - 1]
          BY <2>2, <4>1 DEF IsHeldUpTo
        <4> QED
          BY <3>2, <3>4, <4>2
      <3> QED
        BY <3>3, <3>4
    <2>4. g = [n \in 0 .. m |->
                  IF n = 0 THEN <<>>
                  ELSE IF awards[due[n]].status = "held" THEN Append(g[n - 1], due[n])
                  ELSE g[n - 1]]
      BY <2>3
    <2> HIDE DEF g
    <2>5. IsHeldUpTo(g, m)
      BY <2>4 DEF IsHeldUpTo
    <2> QED
      BY <1>3, <2>5
  <1> QED
    BY <1>4, <1>5

LEMMA HeldUpToUnfolds ==
    ASSUME NEW f, NEW k, IsHeldUpTo(f, k), NEW n \in 0 .. k
    PROVE  f[n] = IF n = 0 THEN <<>>
                  ELSE IF awards[due[n]].status = "held" THEN Append(f[n - 1], due[n])
                  ELSE f[n - 1]
  <1> DEFINE g == [i \in 0 .. k |->
                      IF i = 0 THEN <<>>
                      ELSE IF awards[due[i]].status = "held" THEN Append(f[i - 1], due[i])
                      ELSE f[i - 1]]
  <1>1. f = g
    BY DEF IsHeldUpTo
  <1>2. g[n] = IF n = 0 THEN <<>>
               ELSE IF awards[due[n]].status = "held" THEN Append(f[n - 1], due[n])
               ELSE f[n - 1]
    OBVIOUS
  <1> HIDE DEF g
  <1>3. f[n] = g[n]
    BY <1>1
  <1> QED
    BY <1>2, <1>3

LEMMA DueHeldType ==
    ASSUME due \in Seq(Awards) PROVE DueHeld \in Seq(Awards)
  <1>0. PICK N : N = Len(due)
    OBVIOUS
  <1>1. N \in Nat /\ N \in 0 .. N
    BY <1>0
  <1> DEFINE F == CHOOSE f : IsHeldUpTo(f, N)
  <1>2. DueHeld = F[N]
    BY <1>0 DEF DueHeld, IsHeldUpTo
  <1>3. IsHeldUpTo(F, N)
    <2>1. \E f : IsHeldUpTo(f, N)
      BY <1>1, HeldUpToExists
    <2> QED
      BY <2>1
  <1> HIDE DEF F
  <1> DEFINE Bad == {n \in 0 .. N : F[n] \notin Seq(Awards)}
  <1>4. Bad = {}
    <2>1. SUFFICES ASSUME Bad # {} PROVE FALSE
      OBVIOUS
    <2>2. Bad \in SUBSET Nat
      OBVIOUS
    <2> HIDE DEF Bad
    <2>3. PICK m \in Bad : \A n \in Bad : m <= n
      BY <2>1, <2>2, LeastNumber
    <2> USE DEF Bad
    <2>4. m \in 0 .. N
      OBVIOUS
    <2>5. F[m] = IF m = 0 THEN <<>>
                 ELSE IF awards[due[m]].status = "held" THEN Append(F[m - 1], due[m])
                 ELSE F[m - 1]
      BY <1>3, <2>4, HeldUpToUnfolds
    <2>6. m # 0
      <3>1. F[m] \notin Seq(Awards)
        OBVIOUS
      <3> HIDE DEF Bad
      <3>2. m = 0 => F[m] = <<>>
        BY <2>5
      <3>3. <<>> \in Seq(Awards)
        OBVIOUS
      <3> QED
        BY <3>1, <3>2, <3>3, Zenon
    <2>7. m - 1 \in 0 .. N /\ m \in 1 .. N /\ m - 1 \notin Bad
      BY <1>1, <2>3, <2>4, <2>6
    <2>8. F[m - 1] \in Seq(Awards) /\ due[m] \in Awards
      BY <1>0, <2>7
    <2>9. F[m] \in Seq(Awards)
      BY <2>5, <2>6, <2>8
    <2> QED
      BY <2>9
  <1> QED
    BY <1>1, <1>2, <1>4

-----------------------------------------------------------------------------
(* What holds of the tables between two transactions.                        *)

LiveOf(r) == {a \in Awards : a[1] = r /\ awards[a].status \in Live}

\* Only a rule that holds has held awards, and the period key of a held award
\* is NULL: nothing gives its slot back.
StatusOK(a) ==
    /\ awards[a].status = "held" => Held[a[1]] /\ ~awards[a].period
    /\ awards[a].status = "none" => ~awards[a].period

\* GrantIsWhole, of one award.
Whole(a) ==
    /\ awards[a].status = "granted" =>
          /\ LegsIn(value, a) = Promised(a[1])
          /\ "entitlement" \in Benefits[a[1]] => value.rights[a] \in {"issued", "expired"}
    /\ awards[a].status \notin {"granted", "reversed"} =>
          LegsIn(value, a) = {} /\ value.rights[a] = "none"

\* The counter of a rule that takes nothing back covers its live awards and
\* stays below the cap; it is exact where no award is held.
CapOK(r) ==
    Capped(r) /\ Policy[r] = "none" =>
        /\ IsFiniteSet(LiveOf(r))
        /\ Cardinality(LiveOf(r)) <= used[r]
        /\ used[r] <= Cap[r]
        /\ cap[r] \in {0, Cap[r]}
        /\ cap[r] = 0 => used[r] = 0
        /\ ~Held[r] => used[r] = Cardinality(LiveOf(r))

TablesInv ==
    /\ awards \in [Awards -> AwardType]
    /\ used \in [Rules -> Nat]
    /\ cap \in [Rules -> Nat]
    /\ WalletOK(value)
    /\ \A a \in Awards : StatusOK(a) /\ Whole(a)
    /\ \A r \in Rules : CapOK(r)

\* A step decides award a at most, one that was not settled, and a held award
\* is granted unless it is worth nothing.
Decides(a) ==
    /\ \A b \in Awards \ {a} : awards'[b] = awards[b]
    /\ awards[a].status \notin Settled
    /\ awards[a].status = "held" =>
          awards'[a].status = "granted" \/ \E factor \in Factors : Worthless(a, factor)

\* RuleNeverOverdraws, of one step.
NoOverdraft ==
    value'.points < 0 /\ value'.points < value.points =>
        \E e \in value'.entries \ value.entries : e.leg \in {"earn_back", "adjust"}

\* What every transaction that decides an award is shown to do.
Transacts(a) == TablesInv' /\ NoOverdraft /\ (UNCHANGED awards \/ Decides(a))

LEMMA WholeIsGrantIsWhole ==
    /\ GrantIsWhole <=> \A a \in Awards : Whole(a)
    /\ GrantIsWhole' <=> \A a \in Awards : Whole(a)'
  BY DEF GrantIsWhole, Whole, LegsOf, LegsIn

LEMMA MarkDoes ==
    ASSUME awards \in [Awards -> AwardType], NEW a \in Awards, NEW s \in Statuses,
           NEW p \in BOOLEAN, Mark(a, s, p)
    PROVE  /\ awards' \in [Awards -> AwardType]
           /\ awards'[a].status = s
           /\ awards'[a].period = (awards[a].period \/ p)
           /\ \A b \in Awards \ {a} : awards'[b] = awards[b]
  <1> DEFINE rec == [status |-> s, period |-> awards[a].period \/ p]
  <1>1. awards' = [awards EXCEPT ![a] = rec]
    BY DEF Mark
  <1>2. awards[a].period \in BOOLEAN
    BY DEF AwardType
  <1>3. awards[a].period \/ p \in BOOLEAN
    BY <1>2
  <1>4. rec \in AwardType
    BY <1>3 DEF AwardType
  <1>5. rec.status = s /\ rec.period = (awards[a].period \/ p)
    OBVIOUS
  <1> HIDE DEF rec
  <1> QED
    BY <1>1, <1>4, <1>5

\* A transaction on award a is judged by award a and its rule alone.
LEMMA TablesStep ==
    ASSUME TablesInv, NEW a \in Awards,
           awards' \in [Awards -> AwardType],
           \A b \in Awards \ {a} : awards'[b] = awards[b],
           used' \in [Rules -> Nat], cap' \in [Rules -> Nat],
           WalletOK(value'), Grown(value, value', a),
           StatusOK(a)', Whole(a)',
           \A r \in Rules \ {a[1]} : used'[r] = used[r] /\ cap'[r] = cap[r],
           CapOK(a[1])'
    PROVE  TablesInv'
  <1>1. ASSUME NEW b \in Awards PROVE StatusOK(b)' /\ Whole(b)'
    <2>1. CASE b = a
      BY <2>1
    <2>2. CASE b # a
      <3>1. awards'[b] = awards[b] /\ value'.rights[b] = value.rights[b]
        BY <2>2 DEF Grown
      <3>2. LegsIn(value', b) = LegsIn(value, b)
        BY <2>2, GrownElsewhere
      <3>3. StatusOK(b) /\ Whole(b)
        BY DEF TablesInv
      <3> QED
        BY <3>1, <3>2, <3>3 DEF StatusOK, Whole
    <2> QED
      BY <2>1, <2>2
  <1>2. ASSUME NEW r \in Rules PROVE CapOK(r)'
    <2>1. CASE r = a[1]
      BY <2>1
    <2>2. CASE r # a[1]
      <3>1. LiveOf(r)' = LiveOf(r)
        BY <2>2 DEF LiveOf
      <3>2. used'[r] = used[r] /\ cap'[r] = cap[r] /\ CapOK(r)
        BY <2>2 DEF TablesInv
      <3> QED
        BY <3>1, <3>2 DEF CapOK
    <2> QED
      BY <2>1, <2>2
  <1>3. WalletOK(value)'
    OBVIOUS
  <1> QED
    BY <1>1, <1>2, <1>3 DEF TablesInv

LEMMA LiveAfter ==
    ASSUME NEW a \in Awards, \A b \in Awards \ {a} : awards'[b] = awards[b]
    PROVE  LiveOf(a[1])' = IF awards'[a].status \in Live THEN LiveOf(a[1]) \cup {a}
                           ELSE LiveOf(a[1]) \ {a}
  BY DEF LiveOf

\* Nothing is spent by a step that leaves the points as they were, or raises
\* them, or leaves them above zero.
LEMMA NoDebt ==
    ASSUME TablesInv, TablesInv',
           value'.points >= value.points \/ value'.points >= 0
    PROVE  NoOverdraft
  <1>1. value.points \in Int /\ value'.points \in Int
    BY DEF TablesInv, WalletOK, ValueType
  <1> QED
    BY <1>1 DEF NoOverdraft

-----------------------------------------------------------------------------
(* The counter of a cap, case by case.                                       *)

LEMMA CapClaimed ==
    ASSUME TablesInv, NEW a \in Awards, awards[a].status = "none",
           Capped(a[1]) => SlotFree(a[1]), ClaimSlot(a[1]),
           \A b \in Awards \ {a} : awards'[b] = awards[b], awards'[a].status \in Live
    PROVE  /\ used' \in [Rules -> Nat] /\ cap' \in [Rules -> Nat]
           /\ \A r \in Rules \ {a[1]} : used'[r] = used[r] /\ cap'[r] = cap[r]
           /\ CapOK(a[1])'
  <1>0. PICK r \in Rules : r = a[1]
    BY AwardRule
  <1>1. used \in [Rules -> Nat] /\ cap \in [Rules -> Nat] /\ CapOK(r)
    BY DEF TablesInv
  <1>2. Cap \in [Rules -> Nat]
    BY RewardAssumption DEF RewardAssumption
  <1>3. CASE ~Capped(r)
    <2>1. UNCHANGED counters
      BY <1>0, <1>3 DEF ClaimSlot
    <2> QED
      BY <1>0, <1>1, <1>3, <2>1 DEF CapOK, counters, Capped
  <1>4. CASE Capped(r)
    <2>1. /\ used' = [used EXCEPT ![r] = @ + 1]
          /\ cap' = [cap EXCEPT ![r] = IF @ = 0 THEN Cap[r] ELSE @]
      BY <1>0, <1>4 DEF ClaimSlot
    <2>2. used[r] \in Nat /\ cap[r] \in Nat /\ Cap[r] \in Nat
      BY <1>1, <1>2
    <2>3. used'[r] = used[r] + 1 /\ cap'[r] = IF cap[r] = 0 THEN Cap[r] ELSE cap[r]
      BY <1>1, <2>1
    <2>4. used' \in [Rules -> Nat] /\ cap' \in [Rules -> Nat]
      BY <1>1, <2>1, <2>2
    <2>5. \A x \in Rules \ {r} : used'[x] = used[x] /\ cap'[x] = cap[x]
      BY <1>1, <2>1
    <2>6. CapOK(r)'
      <3> SUFFICES ASSUME Policy[r] = "none"
                   PROVE  /\ IsFiniteSet(LiveOf(r)')
                          /\ Cardinality(LiveOf(r)') <= used'[r]
                          /\ used'[r] <= Cap[r]
                          /\ cap'[r] \in {0, Cap[r]}
                          /\ cap'[r] = 0 => used'[r] = 0
                          /\ ~Held[r] => used'[r] = Cardinality(LiveOf(r)')
        BY <1>4 DEF CapOK, Capped
      <3>1. /\ IsFiniteSet(LiveOf(r)) /\ Cardinality(LiveOf(r)) <= used[r]
            /\ used[r] <= Cap[r] /\ cap[r] \in {0, Cap[r]}
            /\ cap[r] = 0 => used[r] = 0
            /\ ~Held[r] => used[r] = Cardinality(LiveOf(r))
        BY <1>1, <1>4 DEF CapOK
      <3>2. LiveOf(r)' = LiveOf(r) \cup {a} /\ a \notin LiveOf(r)
        BY <1>0, LiveAfter DEF LiveOf, Live
      <3>3. /\ IsFiniteSet(LiveOf(r) \cup {a})
            /\ Cardinality(LiveOf(r) \cup {a}) = Cardinality(LiveOf(r)) + 1
            /\ Cardinality(LiveOf(r)) \in Nat
        BY <3>1, <3>2, FS_AddElement, FS_CardinalityType
      <3>4. Cap[r] > 0 /\ (cap[r] = 0 \/ used[r] < cap[r])
        BY <1>0, <1>4 DEF Capped, SlotFree
      <3> QED
        BY <2>2, <2>3, <3>1, <3>2, <3>3, <3>4
    <2> QED
      BY <1>0, <2>4, <2>5, <2>6
  <1> QED
    BY <1>3, <1>4

\* The first claim copies the cap, and the slot of a worthless award is handed
\* back in the same transaction.
LEMMA CapSkipped ==
    ASSUME TablesInv, NEW a \in Awards, awards[a].status = "none",
           \/ UNCHANGED counters
           \/ /\ UNCHANGED used
              /\ cap' = IF Capped(a[1]) /\ cap[a[1]] = 0
                        THEN [cap EXCEPT ![a[1]] = Cap[a[1]]] ELSE cap,
           \A b \in Awards \ {a} : awards'[b] = awards[b], awards'[a].status \notin Live
    PROVE  /\ used' \in [Rules -> Nat] /\ cap' \in [Rules -> Nat]
           /\ \A r \in Rules \ {a[1]} : used'[r] = used[r] /\ cap'[r] = cap[r]
           /\ CapOK(a[1])'
  <1>0. PICK r \in Rules : r = a[1]
    BY AwardRule
  <1>1. used \in [Rules -> Nat] /\ cap \in [Rules -> Nat] /\ CapOK(r)
    BY DEF TablesInv
  <1>2. Cap[r] \in Nat /\ cap[r] \in Nat /\ used[r] \in Nat
    BY <1>1, RewardAssumption DEF RewardAssumption
  <1>3. used' = used
    BY DEF counters
  <1>4. \/ cap' = cap
        \/ cap[r] = 0 /\ cap' = [cap EXCEPT ![r] = Cap[r]]
    <2>1. CASE UNCHANGED counters
      BY <2>1 DEF counters
    <2>2. CASE cap' = IF Capped(a[1]) /\ cap[a[1]] = 0
                      THEN [cap EXCEPT ![a[1]] = Cap[a[1]]] ELSE cap
      BY <1>0, <2>2
    <2> QED
      BY <2>1, <2>2
  <1>5. cap' \in [Rules -> Nat] /\ \A x \in Rules \ {r} : cap'[x] = cap[x]
    BY <1>1, <1>2, <1>4
  <1>6. \/ cap'[r] = cap[r]
        \/ cap[r] = 0 /\ cap'[r] = Cap[r]
    BY <1>1, <1>4
  <1>7. LiveOf(r)' = LiveOf(r)
    BY <1>0, LiveAfter DEF LiveOf, Live
  <1>8. CapOK(r)'
    BY <1>1, <1>2, <1>3, <1>6, <1>7 DEF CapOK, Capped
  <1> QED
    BY <1>0, <1>1, <1>3, <1>5, <1>8

\* A held award that is granted keeps its slot; one that is worth nothing keeps
\* it too, which no counter of a rule that holds is promised to match.
LEMMA CapOfHeld ==
    ASSUME TablesInv, NEW a \in Awards, awards[a].status = "held", UNCHANGED counters,
           \A b \in Awards \ {a} : awards'[b] = awards[b]
    PROVE  /\ used' \in [Rules -> Nat] /\ cap' \in [Rules -> Nat]
           /\ \A r \in Rules \ {a[1]} : used'[r] = used[r] /\ cap'[r] = cap[r]
           /\ CapOK(a[1])'
  <1>0. PICK r \in Rules : r = a[1]
    BY AwardRule
  <1>1. used \in [Rules -> Nat] /\ cap \in [Rules -> Nat] /\ CapOK(r) /\ StatusOK(a)
    BY DEF TablesInv
  <1>2. used' = used /\ cap' = cap
    BY DEF counters
  <1>3. Held[r] /\ used[r] \in Nat
    BY <1>0, <1>1 DEF StatusOK
  <1>4. LiveOf(r)' = LiveOf(r) \/ LiveOf(r)' = LiveOf(r) \ {a}
    BY <1>0, LiveAfter DEF LiveOf, Live
  <1>5. ASSUME IsFiniteSet(LiveOf(r))
        PROVE  IsFiniteSet(LiveOf(r)') /\ Cardinality(LiveOf(r)') <= Cardinality(LiveOf(r))
                 /\ Cardinality(LiveOf(r)') \in Nat /\ Cardinality(LiveOf(r)) \in Nat
    <2>1. LiveOf(r)' \in SUBSET LiveOf(r)
      BY <1>4
    <2> QED
      BY <1>5, <2>1, FS_Subset, FS_CardinalityType
  <1>6. CapOK(r)'
    BY <1>1, <1>2, <1>3, <1>5 DEF CapOK, Capped
  <1> QED
    BY <1>0, <1>1, <1>2, <1>6

-----------------------------------------------------------------------------
(* The transactions.                                                         *)

\* An award that is written off before anything was granted.
LEMMA WrittenOff ==
    ASSUME TablesInv, NEW a \in Awards, awards[a].status \in {"none", "held"},
           NEW s \in {"skipped_condition", "skipped_cap", "skipped_zero_factor"},
           NEW p \in BOOLEAN, Mark(a, s, p), UNCHANGED value,
           awards[a].status = "held" => \E factor \in Factors : Worthless(a, factor),
           used' \in [Rules -> Nat], cap' \in [Rules -> Nat],
           \A r \in Rules \ {a[1]} : used'[r] = used[r] /\ cap'[r] = cap[r],
           CapOK(a[1])'
    PROVE  Transacts(a)
  <1>1. awards \in [Awards -> AwardType] /\ WalletOK(value) /\ Whole(a)
    BY DEF TablesInv
  <1>2. /\ awards' \in [Awards -> AwardType] /\ awards'[a].status = s
        /\ \A b \in Awards \ {a} : awards'[b] = awards[b]
    <2>1. s \in Statuses
      BY DEF Statuses, Settled
    <2> QED
      BY <1>1, <2>1, MarkDoes
  <1>3. value' = value /\ WalletOK(value') /\ Grown(value, value', a)
    BY <1>1, GrownNot
  <1>4. StatusOK(a)'
    BY <1>2 DEF StatusOK
  <1>5. Whole(a)'
    <2>1. LegsIn(value', a) = LegsIn(value, a)
      BY <1>3
    <2> QED
      BY <1>1, <1>2, <1>3, <2>1 DEF Whole
  <1>6. TablesInv'
    BY <1>2, <1>3, <1>4, <1>5, TablesStep
  <1>7. NoOverdraft
    <2>1. value.points \in Int
      BY <1>1 DEF WalletOK, ValueType
    <2> QED
      BY <1>3, <1>6, <2>1, NoDebt
  <1>8. Decides(a)
    BY <1>2 DEF Decides, Settled
  <1> QED
    BY <1>6, <1>7, <1>8 DEF Transacts

LEMMA SkippedTransacts ==
    ASSUME TablesInv, NEW a \in Awards,
           SkipCondition(a) \/ SkipCap(a) \/ SkipZeroFactor(a)
    PROVE  Transacts(a)
  <1>1. awards[a].status = "none" /\ awards \in [Awards -> AwardType] /\ UNCHANGED value
    BY DEF SkipCondition, SkipCap, SkipZeroFactor, TablesInv
  <1>2. PICK s \in {"skipped_condition", "skipped_cap", "skipped_zero_factor"},
             p \in BOOLEAN : Mark(a, s, p)
    <2>1. Capped(a[1]) \in BOOLEAN /\ TRUE \in BOOLEAN /\ FALSE \in BOOLEAN
      BY DEF Capped
    <2> QED
      BY <2>1 DEF SkipCondition, SkipCap, SkipZeroFactor
  <1>3. s \in Statuses /\ s \notin Live
    BY DEF Statuses, Settled, Live
  <1>4. awards'[a].status \notin Live /\ \A b \in Awards \ {a} : awards'[b] = awards[b]
    BY <1>1, <1>2, <1>3, MarkDoes
  <1>5. \/ UNCHANGED counters
        \/ /\ UNCHANGED used
           /\ cap' = IF Capped(a[1]) /\ cap[a[1]] = 0
                     THEN [cap EXCEPT ![a[1]] = Cap[a[1]]] ELSE cap
    BY DEF SkipCondition, SkipCap, SkipZeroFactor
  <1>6. /\ used' \in [Rules -> Nat] /\ cap' \in [Rules -> Nat]
        /\ \A r \in Rules \ {a[1]} : used'[r] = used[r] /\ cap'[r] = cap[r]
        /\ CapOK(a[1])'
    BY <1>1, <1>4, <1>5, CapSkipped
  <1> QED
    BY <1>1, <1>2, <1>6, WrittenOff

LEMMA HoldTransacts ==
    ASSUME TablesInv, NEW a \in Awards, Hold(a)
    PROVE  Transacts(a)
  <1>1. /\ awards \in [Awards -> AwardType] /\ WalletOK(value) /\ Whole(a) /\ StatusOK(a)
        /\ awards[a].status = "none" /\ Held[a[1]] /\ ClaimSlot(a[1])
        /\ Capped(a[1]) => SlotFree(a[1])
        /\ Mark(a, "held", FALSE) /\ value' = value
    BY DEF TablesInv, Hold
  <1>2. /\ awards' \in [Awards -> AwardType] /\ awards'[a].status = "held"
        /\ awards'[a].period = (awards[a].period \/ FALSE)
        /\ \A b \in Awards \ {a} : awards'[b] = awards[b]
    <2>1. "held" \in Statuses /\ FALSE \in BOOLEAN
      BY DEF Statuses
    <2> QED
      BY <1>1, <2>1, MarkDoes
  <1>3. /\ used' \in [Rules -> Nat] /\ cap' \in [Rules -> Nat]
        /\ \A r \in Rules \ {a[1]} : used'[r] = used[r] /\ cap'[r] = cap[r]
        /\ CapOK(a[1])'
    BY <1>1, <1>2, CapClaimed DEF Live
  <1>4. WalletOK(value') /\ Grown(value, value', a)
    BY <1>1, GrownNot
  <1>5. StatusOK(a)'
    <2>1. ~awards[a].period
      BY <1>1 DEF StatusOK
    <2>2. ~awards'[a].period
      BY <1>2, <2>1
    <2> QED
      BY <1>1, <1>2, <2>2 DEF StatusOK
  <1>6. Whole(a)'
    <2>1. LegsIn(value', a) = LegsIn(value, a)
      BY <1>1
    <2> QED
      BY <1>1, <1>2, <2>1 DEF Whole
  <1>7. TablesInv'
    BY <1>2, <1>3, <1>4, <1>5, <1>6, TablesStep
  <1>8. NoOverdraft
    <2>1. value.points \in Int
      BY <1>1 DEF WalletOK, ValueType
    <2> QED
      BY <1>1, <1>7, <2>1, NoDebt
  <1>9. Decides(a)
    BY <1>1, <1>2 DEF Decides, Settled
  <1> QED
    BY <1>7, <1>8, <1>9 DEF Transacts

\* All benefits at once, from an award that had none.
LEMMA Granted ==
    ASSUME TablesInv, NEW a \in Awards, awards[a].status \in {"none", "held"},
           NEW p \in BOOLEAN, Mark(a, "granted", p),
           Affordable(EarnPoints(value, a), a), value' = Applied(value, a),
           used' \in [Rules -> Nat], cap' \in [Rules -> Nat],
           \A r \in Rules \ {a[1]} : used'[r] = used[r] /\ cap'[r] = cap[r],
           CapOK(a[1])'
    PROVE  Transacts(a)
  <1>1. awards \in [Awards -> AwardType] /\ WalletOK(value) /\ Whole(a)
    BY DEF TablesInv
  <1>2. /\ awards' \in [Awards -> AwardType] /\ awards'[a].status = "granted"
        /\ \A b \in Awards \ {a} : awards'[b] = awards[b]
    <2>1. "granted" \in Statuses
      BY DEF Statuses, Settled
    <2> QED
      BY <1>1, <2>1, MarkDoes
  <1>3. /\ WalletOK(value') /\ Grown(value, value', a)
        /\ LegsIn(value', a) = LegsIn(value, a) \cup Promised(a[1])
        /\ "entitlement" \in Benefits[a[1]] => value'.rights[a] = "issued"
        /\ value'.points >= value.points \/ value'.points >= 0
    BY <1>1, AppliedDoes
  <1>4. StatusOK(a)'
    BY <1>2 DEF StatusOK
  <1>5. Whole(a)'
    <2>1. LegsIn(value, a) = {}
      BY <1>1 DEF Whole
    <2>2. LegsIn(value', a) = Promised(a[1])
      BY <1>3, <2>1
    <2> QED
      BY <1>2, <1>3, <2>2 DEF Whole
  <1>6. TablesInv'
    BY <1>2, <1>3, <1>4, <1>5, TablesStep
  <1>7. NoOverdraft
    BY <1>3, <1>6, NoDebt
  <1>8. Decides(a)
    BY <1>2 DEF Decides, Settled
  <1> QED
    BY <1>6, <1>7, <1>8 DEF Transacts

LEMMA GrantNowTransacts ==
    ASSUME TablesInv, NEW a \in Awards, GrantNow(a)
    PROVE  Transacts(a)
  <1>1. /\ awards[a].status = "none" /\ ClaimSlot(a[1]) /\ (Capped(a[1]) => SlotFree(a[1]))
        /\ Mark(a, "granted", Capped(a[1])) /\ value' = Applied(value, a)
        /\ Affordable(EarnPoints(value, a), a)
    BY DEF GrantNow
  <1>2. Capped(a[1]) \in BOOLEAN
    BY DEF Capped
  <1>3. awards'[a].status \in Live /\ \A b \in Awards \ {a} : awards'[b] = awards[b]
    <2>1. "granted" \in Statuses /\ "granted" \in Live /\ awards \in [Awards -> AwardType]
      BY DEF Statuses, Settled, Live, TablesInv
    <2> QED
      BY <1>1, <1>2, <2>1, MarkDoes
  <1>4. /\ used' \in [Rules -> Nat] /\ cap' \in [Rules -> Nat]
        /\ \A r \in Rules \ {a[1]} : used'[r] = used[r] /\ cap'[r] = cap[r]
        /\ CapOK(a[1])'
    BY <1>1, <1>3, CapClaimed
  <1> QED
    BY <1>1, <1>2, <1>4, Granted

LEMMA HeldTransacts ==
    ASSUME TablesInv, NEW a \in Awards, lockHeldAward(a),
           GrantHeldZero(a) \/ GrantHeldFull(a)
    PROVE  Transacts(a)
  <1>1. awards \in [Awards -> AwardType] /\ awards[a].status = "held" /\ ~awards[a].period
    BY DEF TablesInv, StatusOK, lockHeldAward
  <1>2. UNCHANGED counters
    BY <1>1 DEF GrantHeldZero, GrantHeldFull
  <1>3. PICK s \in {"skipped_zero_factor", "granted"} : Mark(a, s, FALSE)
    BY DEF GrantHeldZero, GrantHeldFull
  <1>4. \A b \in Awards \ {a} : awards'[b] = awards[b]
    <2>1. s \in Statuses /\ FALSE \in BOOLEAN
      BY DEF Statuses, Settled
    <2> QED
      BY <1>1, <1>3, <2>1, MarkDoes
  <1>5. /\ used' \in [Rules -> Nat] /\ cap' \in [Rules -> Nat]
        /\ \A r \in Rules \ {a[1]} : used'[r] = used[r] /\ cap'[r] = cap[r]
        /\ CapOK(a[1])'
    BY <1>1, <1>2, <1>4, CapOfHeld
  <1>6. ASSUME GrantHeldZero(a) PROVE Transacts(a)
    <2>1. /\ Mark(a, "skipped_zero_factor", FALSE) /\ UNCHANGED value
          /\ \E factor \in Factors : Worthless(a, factor)
      BY <1>6 DEF GrantHeldZero
    <2> QED
      BY <1>1, <1>5, <2>1, WrittenOff
  <1>7. ASSUME GrantHeldFull(a) PROVE Transacts(a)
    <2>1. /\ Mark(a, "granted", FALSE) /\ value' = Applied(value, a)
          /\ Affordable(EarnPoints(value, a), a)
      BY <1>7 DEF GrantHeldFull
    <2> QED
      BY <1>1, <1>5, <2>1, Granted
  <1> QED
    BY <1>6, <1>7

\* Nothing is written: the award exists, or the transaction rolls back.
LEMMA IdleTransacts ==
    ASSUME TablesInv, NEW a, UNCHANGED <<awards, counters, value>>
    PROVE  Transacts(a)
  <1>1. awards' = awards /\ used' = used /\ cap' = cap /\ value' = value
    BY DEF counters
  <1>2. TablesInv'
    BY <1>1 DEF TablesInv, StatusOK, Whole, CapOK, LiveOf
  <1>3. NoOverdraft
    <2>1. value.points \in Int
      BY DEF TablesInv, WalletOK, ValueType
    <2> QED
      BY <1>1, <1>2, <2>1, NoDebt
  <1> QED
    BY <1>1, <1>2, <1>3 DEF Transacts

LEMMA EvaluationTransacts ==
    ASSUME TablesInv, NEW a \in Awards, NothingCredited(a) \/ GrantNow(a)
    PROVE  Transacts(a)
  <1>1. ASSUME Duplicate(a) \/ Unaffordable(a) PROVE Transacts(a)
    BY <1>1, IdleTransacts DEF Duplicate, Unaffordable
  <1> QED
    BY <1>1, SkippedTransacts, HoldTransacts, GrantNowTransacts DEF NothingCredited

\* The award is marked reversed whatever it is now, and what is taken back is
\* its own.
LEMMA ReverseTables ==
    ASSUME TablesInv, NEW w, NEW s \in Snapshot, Reverse(w, s)
    PROVE  /\ TablesInv' /\ NoOverdraft
           /\ \A b \in Awards \ {s.award} : awards'[b] = awards[b]
           /\ awards'[s.award] = [status |-> "reversed", period |-> awards[s.award].period]
  <1>0. PICK a \in Awards : a = s.award
    BY DEF Snapshot
  <1>1. PICK r \in Rules : r = a[1]
    BY AwardRule
  <1>2. /\ value' = value \/ value' = Compensated(value, a)
        /\ Mark(a, "reversed", FALSE)
        /\ Policy[r] # "none"
        /\ UNCHANGED counters \/ ReleaseSlot(r)
    BY <1>0, <1>1 DEF Reverse, Reversible
  <1>3. awards \in [Awards -> AwardType] /\ WalletOK(value)
        /\ used \in [Rules -> Nat] /\ cap \in [Rules -> Nat]
    BY DEF TablesInv
  <1>4. /\ awards' \in [Awards -> AwardType] /\ awards'[a].status = "reversed"
        /\ awards'[a].period = (awards[a].period \/ FALSE)
        /\ \A b \in Awards \ {a} : awards'[b] = awards[b]
    <2>1. "reversed" \in Statuses /\ FALSE \in BOOLEAN
      BY DEF Statuses, Settled
    <2> QED
      BY <1>2, <1>3, <2>1, MarkDoes
  <1>5. awards'[a] = [status |-> "reversed", period |-> awards[a].period]
    <2>1. awards'[a] \in AwardType /\ awards[a].period \in BOOLEAN
      BY <1>3, <1>4 DEF AwardType
    <2>2. awards'[a].period = awards[a].period
      BY <1>4, <2>1
    <2> QED
      BY <1>4, <2>1, <2>2 DEF AwardType
  <1>6. /\ used' \in [Rules -> Nat] /\ cap' \in [Rules -> Nat]
        /\ \A x \in Rules \ {r} : used'[x] = used[x] /\ cap'[x] = cap[x]
    <2>1. CASE UNCHANGED counters
      BY <1>3, <2>1 DEF counters
    <2>2. CASE ReleaseSlot(r)
      <3>1. used' = [used EXCEPT ![r] = IF @ = 0 THEN 0 ELSE @ - 1] /\ cap' = cap
        BY <2>2 DEF ReleaseSlot
      <3>2. (IF used[r] = 0 THEN 0 ELSE used[r] - 1) \in Nat
        BY <1>3
      <3> QED
        BY <1>3, <3>1, <3>2
    <2> QED
      BY <1>2, <2>1, <2>2
  <1>7. CapOK(a[1])'
    BY <1>1, <1>2 DEF CapOK, Capped
  <1>8. WalletOK(value') /\ Grown(value, value', a)
    BY <1>2, <1>3, CompensatedDoes, GrownNot
  <1>9. StatusOK(a)' /\ Whole(a)'
    BY <1>4 DEF StatusOK, Whole
  <1>10. TablesInv'
    BY <1>1, <1>4, <1>6, <1>7, <1>8, <1>9, TablesStep
  <1>11. NoOverdraft
    <2>1. value.points \in Int
      BY <1>3 DEF WalletOK, ValueType
    <2>2. CASE value' = value
      BY <1>10, <2>1, <2>2, NoDebt
    <2>3. CASE value' = Compensated(value, a)
      <3>1. value'.points < value.points =>
              \E e \in value'.entries \ value.entries : e.leg = "earn_back"
        BY <1>3, <2>3, CompensatedDoes
      <3> QED
        BY <3>1 DEF NoOverdraft
    <2> QED
      BY <1>2, <2>2, <2>3
  <1> QED
    BY <1>0, <1>4, <1>5, <1>10, <1>11

LEMMA AdjustTables ==
    ASSUME TablesInv, NEW n \in Adjustments, AdjustBalance(n)
    PROVE  TablesInv' /\ NoOverdraft
  <1>1. /\ value' = Post(value, n, "adjust", AdjustBy[n])
        /\ awards' = awards /\ used' = used /\ cap' = cap
    BY DEF AdjustBalance, counters
  <1>2. WalletOK(value) /\ AdjustBy[n] \in Int /\ "adjust" \in Legs
    BY RewardAssumption DEF TablesInv, RewardAssumption, Legs, PointsLegs
  <1>3. n \notin Awards
    BY KeysAssumption DEF KeysAssumption
  <1>4. WalletOK(value') /\ Grown(value, value', n) /\ value'.rights = value.rights
    BY <1>1, <1>2, PostKeeps, PostGrows
  <1>5. ASSUME NEW a \in Awards PROVE StatusOK(a)' /\ Whole(a)'
    <2>1. LegsIn(value', a) = LegsIn(value, a)
      BY <1>3, <1>4, GrownElsewhere
    <2>2. StatusOK(a) /\ Whole(a)
      BY DEF TablesInv
    <2> QED
      BY <1>1, <1>4, <2>1, <2>2 DEF StatusOK, Whole
  <1>6. ASSUME NEW r \in Rules PROVE CapOK(r)'
    BY <1>1 DEF TablesInv, CapOK, LiveOf
  <1>7. TablesInv'
    <2>1. WalletOK(value)'
      BY <1>4
    <2> QED
      BY <1>1, <1>5, <1>6, <2>1 DEF TablesInv
  <1>8. NoOverdraft
    <2>1. value.points \in Int
      BY <1>2 DEF WalletOK, ValueType
    <2>2. value' = value \/ Posted(value, value', Key(n, "adjust", AdjustBy[n]))
      BY <1>1, <1>2, PostDoes
    <2>3. CASE value' = value
      BY <1>7, <2>1, <2>3, NoDebt
    <2>4. CASE Posted(value, value', Key(n, "adjust", AdjustBy[n]))
      BY <2>4 DEF NoOverdraft, Posted, Key
    <2> QED
      BY <2>2, <2>3, <2>4
  <1> QED
    BY <1>7, <1>8

LEMMA ExpiryTables ==
    ASSUME TablesInv, NEW a \in Awards, ExpireLapsed(a)
    PROVE  TablesInv' /\ NoOverdraft
  <1>1. /\ value.rights[a] = "issued"
        /\ value' = [value EXCEPT !.rights[a] = "expired"]
        /\ awards' = awards /\ used' = used /\ cap' = cap
    BY DEF ExpireLapsed, counters
  <1>2. WalletOK(value) /\ Whole(a) /\ StatusOK(a) /\ CapOK(a[1])
        /\ awards \in [Awards -> AwardType]
        /\ used \in [Rules -> Nat] /\ cap \in [Rules -> Nat]
    BY AwardRule DEF TablesInv
  <1>3. /\ WalletOK(value') /\ Grown(value, value', a) /\ value'.rights[a] = "expired"
        /\ value'.entries = value.entries /\ value'.points = value.points
    <2>1. "expired" \in RightStatuses
      BY DEF RightStatuses
    <2> QED
      BY <1>1, <1>2, <2>1, RightSet
  <1>4. Whole(a)'
    <2>1. LegsIn(value', a) = LegsIn(value, a)
      BY <1>3 DEF LegsIn
    <2>2. awards[a].status \in {"granted", "reversed"}
      BY <1>1, <1>2 DEF Whole
    <2> QED
      BY <1>1, <1>2, <1>3, <2>1, <2>2 DEF Whole
  <1>5. StatusOK(a)' /\ CapOK(a[1])'
    BY <1>1, <1>2 DEF StatusOK, CapOK, LiveOf
  <1>6. TablesInv'
    BY <1>1, <1>2, <1>3, <1>4, <1>5, TablesStep
  <1>7. NoOverdraft
    <2>1. value.points \in Int
      BY <1>2 DEF WalletOK, ValueType
    <2> QED
      BY <1>3, <1>6, <2>1, NoDebt
  <1> QED
    BY <1>6, <1>7

-----------------------------------------------------------------------------
(* What a process holds in memory.                                           *)

\* It refers to messages and awards that exist, and offers the balance of an
\* award that a message earned.
RecOK(rec) ==
    /\ rec \in WorkerType
    /\ rec.todo \subseteq MessageRules
    /\ rec.todo # {} => rec.event \in Events
    /\ rec.credited \in MessageAwards \cup {NoAward}
    /\ rec.offers # {} => rec.credited \in MessageAwards

MemoryInv ==
    /\ active \in SUBSET Rules
    /\ due \in Seq(Awards)
    /\ gone \in [Events -> SUBSET RemovalKinds]
    /\ wk \in [Workers -> WorkerType]
    /\ \A w \in Workers : RecOK(wk[w])

RewardInv == TablesInv /\ MemoryInv

\* No process learns of more awards than it had read.
Forgets == \A v \in Workers : wk'[v].seen \subseteq wk[v].seen

LEMMA MemoryStep ==
    ASSUME MemoryInv, NEW w \in Workers, NEW rec, RecOK(rec), wk' = [wk EXCEPT ![w] = rec],
           active' \in SUBSET Rules, due' \in Seq(Awards),
           gone' \in [Events -> SUBSET RemovalKinds]
    PROVE  MemoryInv' /\ (rec.seen \subseteq wk[w].seen => Forgets)
  <1>1. rec \in WorkerType /\ wk \in [Workers -> WorkerType]
    BY DEF MemoryInv, RecOK
  <1>2. wk' \in [Workers -> WorkerType]
    BY <1>1
  <1>3. \A v \in Workers : wk'[v] = IF v = w THEN rec ELSE wk[v]
    BY <1>1
  <1>4. ASSUME NEW v \in Workers PROVE RecOK(wk'[v])
    <2>1. RecOK(wk[v])
      BY DEF MemoryInv
    <2> QED
      BY <1>3, <2>1
  <1>5. rec.seen \subseteq wk[w].seen => Forgets
    BY <1>3 DEF Forgets
  <1> QED
    BY <1>2, <1>4, <1>5 DEF MemoryInv

LEMMA RecIdle == RecOK(Idle)
  BY DEF RecOK, Idle, WorkerType

LEMMA RecDead ==
    ASSUME NEW rec, RecOK(rec)
    PROVE  RecOK([rec EXCEPT !.job = "dead"])
  BY DEF RecOK, WorkerType

LEMMA RecEvaluate ==
    ASSUME NEW rec, RecOK(rec), NEW e \in Events, NEW S \in SUBSET Rules, S \subseteq MessageRules
    PROVE  RecOK([rec EXCEPT !.job = "evaluate", !.event = e, !.todo = S])
  BY DEF RecOK, WorkerType

LEMMA RecSweep ==
    ASSUME NEW rec, RecOK(rec), NEW l \in Seq(Awards)
    PROVE  RecOK([rec EXCEPT !.job = "sweep", !.list = l])
  BY DEF RecOK, WorkerType

LEMMA RecReverse ==
    ASSUME NEW rec, RecOK(rec), NEW S \in SUBSET Snapshot
    PROVE  RecOK([rec EXCEPT !.job = "reverse", !.seen = S])
  BY DEF RecOK, WorkerType

LEMMA RecTodo ==
    ASSUME NEW rec, RecOK(rec), NEW S \in SUBSET rec.todo,
           NEW c \in MessageAwards \cup {NoAward}, rec.offers = {}
    PROVE  RecOK([rec EXCEPT !.todo = S, !.credited = c])
  BY DEF RecOK, WorkerType, Awards

LEMMA RecOffers ==
    ASSUME NEW rec, RecOK(rec), NEW O \in SUBSET ThresholdRules,
           rec.credited \in MessageAwards
    PROVE  RecOK([rec EXCEPT !.offers = O])
  BY DEF RecOK, WorkerType

LEMMA RecOffered ==
    ASSUME NEW rec, RecOK(rec)
    PROVE  /\ RecOK([rec EXCEPT !.offers = {}, !.credited = NoAward])
           /\ rec.offers = {} => RecOK([rec EXCEPT !.credited = NoAward])
  BY DEF RecOK, WorkerType

LEMMA RecListed ==
    ASSUME NEW rec, RecOK(rec), rec.list # <<>>, rec.offers = {},
           NEW c \in MessageAwards \cup {NoAward}
    PROVE  RecOK([rec EXCEPT !.list = Tail(@), !.credited = c])
  <1>1. rec.list \in Seq(Awards)
    BY DEF RecOK, WorkerType
  <1>2. PICK l \in Seq(Awards) : l = Tail(rec.list)
    <2>1. \A q \in Seq(Awards) : q # <<>> => Tail(q) \in Seq(Awards)
      OBVIOUS
    <2>2. Tail(rec.list) \in Seq(Awards)
      BY <1>1, <2>1
    <2> QED
      BY <2>2
  <1>3. RecOK([rec EXCEPT !.list = l, !.credited = c])
    BY DEF RecOK, WorkerType, Awards
  <1>4. [rec EXCEPT !.list = Tail(@), !.credited = c] = [rec EXCEPT !.list = l, !.credited = c]
    BY <1>2
  <1> QED
    BY <1>3, <1>4

LEMMA RecSeen ==
    ASSUME NEW rec, RecOK(rec), NEW S \in SUBSET rec.seen
    PROVE  RecOK([rec EXCEPT !.seen = S])
  BY DEF RecOK, WorkerType

LEMMA RecResume ==
    ASSUME NEW rec, RecOK(rec) PROVE RecOK(Resume(rec))
  BY RecIdle DEF Resume

\* The tables of the memory that a step of one process leaves alone.
Elsewhere == UNCHANGED <<active, due, gone>>

LEMMA ElsewhereTyped ==
    ASSUME MemoryInv, Elsewhere
    PROVE  /\ active' \in SUBSET Rules /\ due' \in Seq(Awards)
           /\ gone' \in [Events -> SUBSET RemovalKinds]
  BY DEF MemoryInv, Elsewhere

LEMMA SeenKept ==
    ASSUME NEW rec \in WorkerType
    PROVE  /\ \A S, c : [rec EXCEPT !.todo = S, !.credited = c].seen = rec.seen
           /\ \A O : [rec EXCEPT !.offers = O].seen = rec.seen
           /\ [rec EXCEPT !.offers = {}, !.credited = NoAward].seen = rec.seen
           /\ [rec EXCEPT !.credited = NoAward].seen = rec.seen
           /\ \A c : [rec EXCEPT !.list = Tail(@), !.credited = c].seen = rec.seen
           /\ \A S : [rec EXCEPT !.seen = S].seen = S
           /\ Idle.seen = {}
  BY DEF WorkerType, Idle

LEMMA ResumeSeen ==
    ASSUME NEW rec, NEW S, rec.seen \subseteq S PROVE Resume(rec).seen \subseteq S
  BY DEF Resume, Idle

LEMMA NextRuleKeeps ==
    ASSUME MemoryInv, NEW w \in Workers, Busy(w, "evaluate"),
           NEW c \in MessageAwards \cup {NoAward}, NextRule(w, c), Elsewhere
    PROVE  MemoryInv' /\ Forgets
  <1>1. PICK S : S = wk[w].todo \ {Min(wk[w].todo)}
    OBVIOUS
  <1>2. RecOK(wk[w]) /\ wk[w] \in WorkerType /\ wk[w].offers = {}
    BY DEF MemoryInv, RecOK, Busy
  <1>3. S \in SUBSET wk[w].todo
    BY <1>1
  <1>4. PICK rec : rec = [wk[w] EXCEPT !.todo = S, !.credited = c]
    OBVIOUS
  <1>5. RecOK(rec) /\ rec.seen \subseteq wk[w].seen
    <2>1. RecOK([wk[w] EXCEPT !.todo = S, !.credited = c])
      BY <1>2, <1>3, RecTodo
    <2>2. rec.seen = wk[w].seen
      BY <1>2, <1>4, SeenKept
    <2> QED
      BY <1>4, <2>1, <2>2
  <1>6. wk' = [wk EXCEPT ![w] = IF S = {} /\ c = NoAward THEN Idle ELSE rec]
    BY <1>1, <1>4 DEF NextRule
  <1>7. PICK next : next = IF S = {} /\ c = NoAward THEN Idle ELSE rec
    OBVIOUS
  <1>8. RecOK(next) /\ next.seen \subseteq wk[w].seen
    BY <1>2, <1>5, <1>7, RecIdle, SeenKept
  <1>9. wk' = [wk EXCEPT ![w] = next]
    BY <1>6, <1>7
  <1> QED
    BY <1>8, <1>9, ElsewhereTyped, MemoryStep

LEMMA NextOfferKeeps ==
    ASSUME MemoryInv, NEW w \in Workers, wk[w].offers # {}, NextOffer(w), Elsewhere
    PROVE  MemoryInv' /\ Forgets
  <1>1. PICK O : O = wk[w].offers \ {Min(wk[w].offers)}
    OBVIOUS
  <1>2. RecOK(wk[w]) /\ wk[w] \in WorkerType /\ wk[w].credited \in MessageAwards
    BY DEF MemoryInv, RecOK
  <1>3. O \in SUBSET ThresholdRules
    BY <1>1, <1>2 DEF WorkerType
  <1>4. PICK done : done = [wk[w] EXCEPT !.offers = {}, !.credited = NoAward]
    OBVIOUS
  <1>5. PICK rec : rec = [wk[w] EXCEPT !.offers = O]
    OBVIOUS
  <1>6. RecOK(done) /\ done.seen \subseteq wk[w].seen
    BY <1>2, <1>4, RecOffered, SeenKept
  <1>7. RecOK(rec) /\ rec.seen \subseteq wk[w].seen
    BY <1>2, <1>3, <1>5, RecOffers, SeenKept
  <1>8. RecOK(Resume(done)) /\ Resume(done).seen \subseteq wk[w].seen
    BY <1>6, RecResume, ResumeSeen
  <1>9. wk' = [wk EXCEPT ![w] = IF O = {} THEN Resume(done) ELSE rec]
    BY <1>1, <1>4, <1>5 DEF NextOffer
  <1>10. PICK next : next = IF O = {} THEN Resume(done) ELSE rec
    OBVIOUS
  <1>11. RecOK(next) /\ next.seen \subseteq wk[w].seen
    BY <1>7, <1>8, <1>10
  <1>12. wk' = [wk EXCEPT ![w] = next]
    BY <1>9, <1>10
  <1> QED
    BY <1>11, <1>12, ElsewhereTyped, MemoryStep

LEMMA NextListedKeeps ==
    ASSUME MemoryInv, NEW w \in Workers, Busy(w, "sweep"), wk[w].list # <<>>,
           NEW c \in MessageAwards \cup {NoAward}, NextListed(w, c), Elsewhere
    PROVE  MemoryInv' /\ Forgets
  <1>1. RecOK(wk[w]) /\ wk[w] \in WorkerType /\ wk[w].offers = {}
    BY DEF MemoryInv, RecOK, Busy
  <1>2. PICK rec : rec = [wk[w] EXCEPT !.list = Tail(@), !.credited = c]
    OBVIOUS
  <1>3. RecOK(rec) /\ rec.seen \subseteq wk[w].seen
    BY <1>1, <1>2, RecListed, SeenKept
  <1>4. RecOK(Resume(rec)) /\ Resume(rec).seen \subseteq wk[w].seen
    BY <1>3, RecResume, ResumeSeen
  <1>5. wk' = [wk EXCEPT ![w] = Resume(rec)]
    BY <1>2 DEF NextListed
  <1> QED
    BY <1>4, <1>5, ElsewhereTyped, MemoryStep

LEMMA NextSeenKeeps ==
    ASSUME MemoryInv, NEW w \in Workers, NEW s, NextSeen(w, s), Elsewhere
    PROVE  MemoryInv' /\ Forgets
  <1>1. PICK S : S = wk[w].seen \ {s}
    OBVIOUS
  <1>2. RecOK(wk[w]) /\ wk[w] \in WorkerType
    BY DEF MemoryInv, RecOK
  <1>3. PICK rec : rec = [wk[w] EXCEPT !.seen = S]
    OBVIOUS
  <1>4. RecOK(rec) /\ rec.seen \subseteq wk[w].seen
    BY <1>1, <1>2, <1>3, RecSeen, SeenKept
  <1>5. wk' = [wk EXCEPT ![w] = IF S = {} THEN Idle ELSE rec]
    BY <1>1, <1>3 DEF NextSeen
  <1>6. PICK next : next = IF S = {} THEN Idle ELSE rec
    OBVIOUS
  <1>7. RecOK(next) /\ next.seen \subseteq wk[w].seen
    BY <1>2, <1>4, <1>6, RecIdle, SeenKept
  <1>8. wk' = [wk EXCEPT ![w] = next]
    BY <1>5, <1>6
  <1> QED
    BY <1>7, <1>8, ElsewhereTyped, MemoryStep

-----------------------------------------------------------------------------
(* The steps of Next.                                                        *)

\* One award at most is decided, and nothing is learnt.
Orderly == Forgets /\ (UNCHANGED awards \/ \E a \in Awards : Decides(a))

\* What a step keeps, and that it overdraws nothing.
Sound == RewardInv' /\ NoOverdraft

\* A step that writes no table.
LEMMA ReadOnly ==
    ASSUME TablesInv, UNCHANGED <<awards, counters, value>>
    PROVE  TablesInv' /\ NoOverdraft /\ UNCHANGED awards
  <1>1. PICK a : a = NoAward
    OBVIOUS
  <1>2. Transacts(a)
    BY IdleTransacts
  <1> QED
    BY <1>2 DEF Transacts

LEMMA EvaluateRuleSound ==
    ASSUME RewardInv, NEW w \in Workers, EvaluateRule(w)
    PROVE  Sound /\ Orderly
  <1>1. /\ Busy(w, "evaluate") /\ wk[w].todo # {} /\ Elsewhere
        /\ TablesInv /\ MemoryInv
    BY DEF EvaluateRule, Elsewhere, RewardInv
  <1>2. RecOK(wk[w])
    BY <1>1 DEF MemoryInv
  <1>3. PICK a : a = <<Min(wk[w].todo), wk[w].event>>
    OBVIOUS
  <1>4. a \in MessageAwards /\ a \in Awards
    <2>1. wk[w].todo \in SUBSET Rules /\ wk[w].todo \subseteq MessageRules
          /\ wk[w].event \in Events
      BY <1>1, <1>2 DEF RecOK, MessageRules
    <2>2. Min(wk[w].todo) \in MessageRules
      BY <1>1, <2>1, MinIn
    <2> QED
      BY <1>3, <2>1, <2>2 DEF MessageAwards, Awards
  <1>5. PICK c \in MessageAwards \cup {NoAward} : NextRule(w, c)
    BY <1>3, <1>4 DEF EvaluateRule
  <1>6. NothingCredited(a) \/ GrantNow(a)
    BY <1>3 DEF EvaluateRule
  <1>7. Transacts(a)
    BY <1>1, <1>4, <1>6, EvaluationTransacts
  <1>8. MemoryInv' /\ Forgets
    BY <1>1, <1>5, NextRuleKeeps
  <1> QED
    BY <1>4, <1>7, <1>8 DEF Sound, Orderly, Transacts, RewardInv

LEMMA EvaluateThresholdSound ==
    ASSUME RewardInv, NEW w \in Workers, EvaluateThreshold(w)
    PROVE  Sound /\ Orderly
  <1>1. /\ wk[w].offers # {} /\ NextOffer(w) /\ Elsewhere
        /\ TablesInv /\ MemoryInv
    BY DEF EvaluateThreshold, Elsewhere, RewardInv
  <1>2. RecOK(wk[w])
    BY <1>1 DEF MemoryInv
  <1>3. PICK a : a = <<Min(wk[w].offers), wk[w].credited>>
    OBVIOUS
  <1>4. a \in Awards
    <2>1. wk[w].offers \in SUBSET Rules /\ wk[w].offers \subseteq ThresholdRules
          /\ wk[w].credited \in MessageAwards
      BY <1>1, <1>2 DEF RecOK, WorkerType, ThresholdRules
    <2>2. Min(wk[w].offers) \in ThresholdRules
      BY <1>1, <2>1, MinIn
    <2> QED
      BY <1>3, <2>1, <2>2 DEF Awards
  <1>5. Transacts(a)
    BY <1>1, <1>3, <1>4, EvaluationTransacts DEF EvaluateThreshold
  <1>6. MemoryInv' /\ Forgets
    BY <1>1, NextOfferKeeps
  <1> QED
    BY <1>4, <1>5, <1>6 DEF Sound, Orderly, Transacts, RewardInv

LEMMA OfferBalanceThresholdsSound ==
    ASSUME RewardInv, NEW w \in Workers, OfferBalanceThresholds(w)
    PROVE  Sound /\ Orderly
  <1>1. /\ wk[w].credited # NoAward /\ wk[w].offers = {} /\ Elsewhere
        /\ UNCHANGED <<awards, counters, value>> /\ TablesInv /\ MemoryInv
    BY DEF OfferBalanceThresholds, Elsewhere, RewardInv, counters
  <1>2. RecOK(wk[w]) /\ wk[w] \in WorkerType /\ wk[w].credited \in MessageAwards
    BY <1>1 DEF MemoryInv, RecOK
  <1>3. PICK O : O = IF value.points > 0 /\ value.points >= MinBalance
                     THEN active \cap ThresholdRules ELSE {}
    OBVIOUS
  <1>4. O \in SUBSET ThresholdRules
    BY <1>3
  <1>5. PICK done : done = [wk[w] EXCEPT !.credited = NoAward]
    OBVIOUS
  <1>6. PICK rec : rec = [wk[w] EXCEPT !.offers = O]
    OBVIOUS
  <1>7. RecOK(done) /\ done.seen \subseteq wk[w].seen
    BY <1>1, <1>2, <1>5, RecOffered, SeenKept
  <1>8. RecOK(rec) /\ rec.seen \subseteq wk[w].seen
    BY <1>2, <1>4, <1>6, RecOffers, SeenKept
  <1>9. RecOK(Resume(done)) /\ Resume(done).seen \subseteq wk[w].seen
    BY <1>7, RecResume, ResumeSeen
  <1>10. wk' = [wk EXCEPT ![w] = IF O = {} THEN Resume(done) ELSE rec]
    BY <1>3, <1>5, <1>6 DEF OfferBalanceThresholds
  <1>11. PICK next : next = IF O = {} THEN Resume(done) ELSE rec
    OBVIOUS
  <1>12. RecOK(next) /\ next.seen \subseteq wk[w].seen /\ wk' = [wk EXCEPT ![w] = next]
    BY <1>8, <1>9, <1>10, <1>11
  <1>13. MemoryInv' /\ Forgets
    BY <1>1, <1>12, ElsewhereTyped, MemoryStep
  <1> QED
    BY <1>1, <1>13, ReadOnly DEF Sound, Orderly, RewardInv

LEMMA SweepSound ==
    ASSUME RewardInv, NEW w \in Workers, Sweep(w)
    PROVE  Sound /\ Orderly
  <1>1. /\ Elsewhere /\ UNCHANGED <<awards, counters, value>> /\ TablesInv /\ MemoryInv
    BY DEF Sweep, Elsewhere, RewardInv, counters
  <1>2. PICK q : q = DueHeld
    OBVIOUS
  <1>3. q \in Seq(Awards)
    BY <1>1, <1>2, DueHeldType DEF MemoryInv
  <1>4. PICK n : n = IF Len(q) < BatchSize THEN Len(q) ELSE BatchSize
    OBVIOUS
  <1>5. n \in 0 .. Len(q)
    <2>1. Len(q) \in Nat /\ BatchSize \in Nat
      BY <1>3, RewardAssumption DEF RewardAssumption
    <2> QED
      BY <1>4, <2>1
  <1>6. PICK l \in Seq(Awards) : l = SubSeq(q, 1, n)
    <2>1. SubSeq(q, 1, n) \in Seq(Awards)
      BY <1>3, <1>5
    <2> QED
      BY <2>1
  <1>7. PICK rec : rec = [Idle EXCEPT !.job = "sweep", !.list = l]
    OBVIOUS
  <1>8. RecOK(rec)
    BY <1>6, <1>7, RecIdle, RecSweep
  <1>9. rec.seen \subseteq wk[w].seen
    BY <1>7 DEF Idle
  <1>10. wk' = [wk EXCEPT ![w] = rec]
    BY <1>2, <1>4, <1>6, <1>7 DEF Sweep
  <1>11. MemoryInv' /\ Forgets
    BY <1>1, <1>8, <1>9, <1>10, ElsewhereTyped, MemoryStep
  <1> QED
    BY <1>1, <1>11, ReadOnly DEF Sound, Orderly, RewardInv

LEMMA GrantHeldSound ==
    ASSUME RewardInv, NEW w \in Workers, GrantHeld(w)
    PROVE  Sound /\ Orderly
  <1>1. /\ Busy(w, "sweep") /\ wk[w].list # <<>> /\ Elsewhere
        /\ TablesInv /\ MemoryInv
    BY DEF GrantHeld, Elsewhere, RewardInv
  <1>2. RecOK(wk[w])
    BY <1>1 DEF MemoryInv
  <1>3. PICK a : a = Head(wk[w].list)
    OBVIOUS
  <1>4. a \in Awards
    <2>1. wk[w].list \in Seq(Awards)
      BY <1>2 DEF RecOK, WorkerType
    <2>2. \A q \in Seq(Awards) : q # <<>> => Head(q) \in Awards
      OBVIOUS
    <2> QED
      BY <1>1, <1>3, <2>1, <2>2
  <1>5. \/ UNCHANGED <<awards, counters, value>>
        \/ lockHeldAward(a) /\ (GrantHeldZero(a) \/ GrantHeldFull(a))
    BY <1>3 DEF GrantHeld, HeldUnaffordable
  <1>6. Transacts(a)
    BY <1>1, <1>4, <1>5, IdleTransacts, HeldTransacts
  <1>7. PICK c \in MessageAwards \cup {NoAward} : NextListed(w, c)
    BY <1>3 DEF GrantHeld
  <1>8. MemoryInv' /\ Forgets
    BY <1>1, <1>7, NextListedKeeps
  <1> QED
    BY <1>4, <1>6, <1>8 DEF Sound, Orderly, Transacts, RewardInv

LEMMA ReverseSound ==
    ASSUME RewardInv, NEW w \in Workers, NEW s \in wk[w].seen, Reverse(w, s)
    PROVE  /\ Sound /\ Forgets /\ s \in Snapshot /\ Reversible(s)
           /\ \A b \in Awards \ {s.award} : awards'[b] = awards[b]
           /\ awards'[s.award] = [status |-> "reversed", period |-> awards[s.award].period]
  <1>1. /\ NextSeen(w, s) /\ Elsewhere /\ TablesInv /\ MemoryInv /\ Reversible(s)
    BY DEF Reverse, Elsewhere, RewardInv
  <1>2. s \in Snapshot
    BY <1>1 DEF MemoryInv, RecOK, WorkerType
  <1>3. MemoryInv' /\ Forgets
    BY <1>1, NextSeenKeeps
  <1> QED
    BY <1>1, <1>2, <1>3, ReverseTables DEF Sound, RewardInv

LEMMA LeaveAloneSound ==
    ASSUME RewardInv, NEW w \in Workers, NEW s, LeaveAlone(w, s)
    PROVE  Sound /\ Orderly
  <1>1. /\ NextSeen(w, s) /\ Elsewhere /\ TablesInv /\ MemoryInv
        /\ UNCHANGED <<awards, counters, value>>
    BY DEF LeaveAlone, Elsewhere, RewardInv, counters
  <1>2. MemoryInv' /\ Forgets
    BY <1>1, NextSeenKeeps
  <1> QED
    BY <1>1, <1>2, ReadOnly DEF Sound, Orderly, RewardInv

\* What a process reads when content goes: the awards as they are.
AsRead(e) ==
    {[award |-> a, status |-> awards[a].status, period |-> awards[a].period] :
        a \in {x \in MessageAwards : x[2] = e /\ awards[x].status # "none"}}

LEMMA ContentGoneSound ==
    ASSUME RewardInv, NEW w \in Workers, NEW e \in Events, NEW how \in Removals,
           ContentGone(w, e, how)
    PROVE  /\ Sound /\ UNCHANGED awards
           /\ \A v \in Workers : wk'[v].seen \subseteq wk[v].seen \cup AsRead(e)
  <1>1. /\ UNCHANGED <<awards, counters, value>> /\ active' = active /\ due' = due
        /\ gone' = [gone EXCEPT ![e] = @ \cup {how}]
        /\ TablesInv /\ MemoryInv
    BY DEF ContentGone, RewardInv, counters
  <1>2. PICK found : found = AsRead(e)
    OBVIOUS
  <1>3. found \in SUBSET Snapshot
    <2>1. awards \in [Awards -> AwardType]
      BY <1>1 DEF TablesInv
    <2>2. ASSUME NEW a \in MessageAwards
          PROVE  [award |-> a, status |-> awards[a].status, period |-> awards[a].period]
                   \in Snapshot
      <3>1. a \in Awards
        BY DEF Awards
      <3>2. awards[a].status \in Statuses /\ awards[a].period \in BOOLEAN
        BY <2>1, <3>1 DEF AwardType
      <3> QED
        BY <3>1, <3>2 DEF Snapshot
    <2> QED
      BY <1>2, <2>2 DEF AsRead
  <1>4. PICK rec : rec = [Idle EXCEPT !.job = "reverse", !.seen = found]
    OBVIOUS
  <1>5. RecOK(rec) /\ rec.seen = found
    <2>1. RecOK(rec)
      BY <1>3, <1>4, RecIdle, RecReverse
    <2>2. rec.seen = found
      BY <1>4 DEF Idle
    <2> QED
      BY <2>1, <2>2
  <1>6. PICK next : next = IF found = {} THEN Idle ELSE rec
    OBVIOUS
  <1>7. RecOK(next) /\ next.seen \subseteq AsRead(e)
    <2>1. Idle.seen = {}
      BY DEF Idle
    <2> QED
      BY <1>2, <1>5, <1>6, <2>1, RecIdle
  <1>8. wk' = [wk EXCEPT ![w] = next]
    BY <1>2, <1>4, <1>6 DEF ContentGone, AsRead
  <1>9. gone' \in [Events -> SUBSET RemovalKinds]
    <2>1. gone \in [Events -> SUBSET RemovalKinds] /\ how \in RemovalKinds
      BY <1>1, RewardAssumption DEF MemoryInv, RewardAssumption
    <2> QED
      BY <1>1, <2>1
  <1>10. MemoryInv'
    BY <1>1, <1>7, <1>8, <1>9, MemoryStep DEF MemoryInv
  <1>11. \A v \in Workers : wk'[v].seen \subseteq wk[v].seen \cup AsRead(e)
    <2>1. \A v \in Workers : wk'[v] = IF v = w THEN next ELSE wk[v]
      BY <1>1, <1>8 DEF MemoryInv
    <2> QED
      BY <1>7, <2>1
  <1> QED
    BY <1>1, <1>10, <1>11, ReadOnly DEF Sound, RewardInv

LEMMA OnTriggerEventSound ==
    ASSUME RewardInv, NEW w \in Workers, NEW e \in Events, OnTriggerEvent(w, e)
    PROVE  Sound /\ Orderly
  <1>1. /\ Elsewhere /\ UNCHANGED <<awards, counters, value>> /\ TablesInv /\ MemoryInv
    BY DEF OnTriggerEvent, Elsewhere, RewardInv, counters
  <1>2. PICK S : S = active \cap MessageRules
    OBVIOUS
  <1>3. S \in SUBSET Rules /\ S \subseteq MessageRules
    BY <1>2 DEF MessageRules
  <1>4. PICK rec : rec = [Idle EXCEPT !.job = "evaluate", !.event = e, !.todo = S]
    OBVIOUS
  <1>5. RecOK(rec)
    BY <1>3, <1>4, RecIdle, RecEvaluate
  <1>6. rec.seen \subseteq wk[w].seen
    BY <1>4 DEF Idle
  <1>7. wk' = [wk EXCEPT ![w] = rec]
    BY <1>2, <1>4 DEF OnTriggerEvent
  <1>8. MemoryInv' /\ Forgets
    BY <1>1, <1>5, <1>6, <1>7, ElsewhereTyped, MemoryStep
  <1> QED
    BY <1>1, <1>8, ReadOnly DEF Sound, Orderly, RewardInv

LEMMA CrashSound ==
    ASSUME RewardInv, NEW w \in Workers, Crash(w)
    PROVE  Sound /\ Orderly
  <1>1. /\ Elsewhere /\ UNCHANGED <<awards, counters, value>> /\ TablesInv /\ MemoryInv
        /\ wk' = [wk EXCEPT ![w] = [Idle EXCEPT !.job = "dead"]]
    BY DEF Crash, Elsewhere, RewardInv, counters
  <1>2. PICK rec : rec = [Idle EXCEPT !.job = "dead"]
    OBVIOUS
  <1>3. RecOK(rec)
    BY <1>2, RecIdle, RecDead
  <1>4. rec.seen \subseteq wk[w].seen
    BY <1>2 DEF Idle
  <1>5. MemoryInv' /\ Forgets
    BY <1>1, <1>2, <1>3, <1>4, ElsewhereTyped, MemoryStep
  <1> QED
    BY <1>1, <1>5, ReadOnly DEF Sound, Orderly, RewardInv

LEMMA TransactionFailsSound ==
    ASSUME RewardInv, NEW w \in Workers, TransactionFails(w)
    PROVE  Sound /\ Orderly
  <1>1. /\ Elsewhere /\ UNCHANGED <<awards, counters, value>> /\ TablesInv /\ MemoryInv
    BY DEF TransactionFails, Elsewhere, RewardInv, counters
  <1>2. \/ Busy(w, "evaluate") /\ NextRule(w, NoAward)
        \/ wk[w].offers # {} /\ NextOffer(w)
        \/ Busy(w, "sweep") /\ wk[w].list # <<>> /\ NextListed(w, NoAward)
        \/ \E s \in wk[w].seen : NextSeen(w, s)
    BY DEF TransactionFails
  <1>3. MemoryInv' /\ Forgets
    <2>1. CASE Busy(w, "evaluate") /\ NextRule(w, NoAward)
      BY <1>1, <2>1, NextRuleKeeps
    <2>2. CASE wk[w].offers # {} /\ NextOffer(w)
      BY <1>1, <2>2, NextOfferKeeps
    <2>3. CASE Busy(w, "sweep") /\ wk[w].list # <<>> /\ NextListed(w, NoAward)
      BY <1>1, <2>3, NextListedKeeps
    <2>4. CASE \E s \in wk[w].seen : NextSeen(w, s)
      BY <1>1, <2>4, NextSeenKeeps
    <2> QED
      BY <1>2, <2>1, <2>2, <2>3, <2>4
  <1> QED
    BY <1>1, <1>3, ReadOnly DEF Sound, Orderly, RewardInv

\* A step that no process makes.
LEMMA MemoryUntouched ==
    ASSUME MemoryInv, UNCHANGED <<gone, wk>>,
           active' \in SUBSET Rules, due' \in Seq(Awards)
    PROVE  MemoryInv' /\ Forgets
  <1>1. wk' = wk /\ gone' = gone
    OBVIOUS
  <1> QED
    BY <1>1 DEF MemoryInv, Forgets

LEMMA AdjustBalanceSound ==
    ASSUME RewardInv, NEW n \in Adjustments, AdjustBalance(n)
    PROVE  Sound /\ Orderly
  <1>1. UNCHANGED <<active, awards, due, gone, wk>> /\ TablesInv /\ MemoryInv
    BY DEF AdjustBalance, RewardInv
  <1>2. MemoryInv' /\ Forgets
    BY <1>1, MemoryUntouched DEF MemoryInv
  <1> QED
    BY <1>1, <1>2, AdjustTables DEF Sound, Orderly, RewardInv

LEMMA ExpireLapsedSound ==
    ASSUME RewardInv, NEW a \in Awards, ExpireLapsed(a)
    PROVE  Sound /\ Orderly
  <1>1. UNCHANGED <<active, awards, due, gone, wk>> /\ TablesInv /\ MemoryInv
    BY DEF ExpireLapsed, RewardInv
  <1>2. MemoryInv' /\ Forgets
    BY <1>1, MemoryUntouched DEF MemoryInv
  <1> QED
    BY <1>1, <1>2, ExpiryTables DEF Sound, Orderly, RewardInv

\* Agents edit and switch rules, holds pass, or nothing happens.
LEMMA PortalSound ==
    ASSUME RewardInv,
           \/ UpdateProgram
           \/ \E r \in Rules, on \in BOOLEAN : SetRuleActive(r, on)
           \/ \E a \in Awards : HoldElapses(a)
           \/ UNCHANGED vars
    PROVE  Sound /\ Orderly
  <1>1. TablesInv /\ MemoryInv
    BY DEF RewardInv
  <1>2. UNCHANGED <<awards, counters, value>> /\ UNCHANGED <<gone, wk>>
    BY DEF UpdateProgram, SetRuleActive, HoldElapses, vars, counters
  <1>3. active' \in SUBSET Rules
    BY <1>1 DEF UpdateProgram, SetRuleActive, HoldElapses, vars, MemoryInv
  <1>4. due' \in Seq(Awards)
    <2>1. due' = due \/ \E a \in Awards : due' = Append(due, a)
      BY DEF UpdateProgram, SetRuleActive, HoldElapses, vars
    <2> QED
      BY <1>1, <2>1 DEF MemoryInv
  <1>5. MemoryInv' /\ Forgets
    BY <1>1, <1>2, <1>3, <1>4, MemoryUntouched
  <1> QED
    BY <1>1, <1>2, <1>5, ReadOnly DEF Sound, Orderly, RewardInv

\* Every step is sound, and is orderly unless content goes or an award is
\* reversed.
LEMMA StepSound ==
    ASSUME RewardInv, [Next]_vars
    PROVE  /\ Sound
           /\ \/ Orderly
              \/ \E w \in Workers, e \in Events, how \in Removals : ContentGone(w, e, how)
              \/ \E w \in Workers : \E s \in wk[w].seen : Reverse(w, s)
  <1>1. CASE \E w \in Workers : Step(w)
    <2>1. PICK w \in Workers : Step(w)
      BY <1>1
    <2>2. \/ EvaluateRule(w) \/ OfferBalanceThresholds(w) \/ EvaluateThreshold(w)
          \/ GrantHeld(w)
          \/ \E s \in wk[w].seen : LeaveAlone(w, s)
          \/ \E s \in wk[w].seen : Reverse(w, s)
      BY <2>1 DEF Step
    <2> QED
      BY <2>2, EvaluateRuleSound, OfferBalanceThresholdsSound, EvaluateThresholdSound,
         GrantHeldSound, LeaveAloneSound, ReverseSound
  <1>2. CASE \E w \in Workers : Sweep(w) \/ TransactionFails(w) \/ Crash(w)
    BY <1>2, SweepSound, TransactionFailsSound, CrashSound
  <1>3. CASE \E w \in Workers, e \in Events : OnTriggerEvent(w, e)
    BY <1>3, OnTriggerEventSound
  <1>4. CASE \E w \in Workers, e \in Events, how \in Removals : ContentGone(w, e, how)
    BY <1>4, ContentGoneSound
  <1>5. CASE \E a \in Awards : ExpireLapsed(a)
    BY <1>5, ExpireLapsedSound
  <1>6. CASE \E n \in Adjustments : AdjustBalance(n)
    BY <1>6, AdjustBalanceSound
  <1>7. CASE \/ UpdateProgram
             \/ \E r \in Rules, on \in BOOLEAN : SetRuleActive(r, on)
             \/ \E a \in Awards : HoldElapses(a)
             \/ UNCHANGED vars
    BY <1>7, PortalSound
  <1> QED
    BY <1>1, <1>2, <1>3, <1>4, <1>5, <1>6, <1>7 DEF Next

LEMMA InitSound == Init => RewardInv
  <1> SUFFICES ASSUME Init PROVE TablesInv /\ MemoryInv
    BY DEF RewardInv
  <1>1. awards \in [Awards -> AwardType]
        /\ \A a \in Awards : awards[a].status = "none" /\ ~awards[a].period
    BY DEF Init, AwardType, Statuses
  <1>2. used \in [Rules -> Nat] /\ cap \in [Rules -> Nat]
        /\ \A r \in Rules : used[r] = 0 /\ cap[r] = 0
    BY DEF Init
  <1>3. /\ value.points = 0 /\ value.money = 0 /\ value.entries = {}
        /\ value \in ValueType /\ \A a \in Awards : value.rights[a] = "none"
    BY DEF Init, ValueType, RightStatuses
  <1>4. \A legs : Total({}, legs) = 0
    <2>1. ASSUME NEW legs PROVE Total({}, legs) = 0
      <3>1. PICK S : S = {e \in {} : e.leg \in legs}
        OBVIOUS
      <3>2. S = {}
        BY <3>1
      <3> QED
        BY <3>1, <3>2, TotalIsSum, NoEntries
    <2> QED
      BY <2>1
  <1>5. WalletOK(value)
    BY <1>3, <1>4, FS_EmptySet DEF WalletOK
  <1>6. ASSUME NEW a \in Awards PROVE StatusOK(a) /\ Whole(a)
    BY <1>1, <1>3 DEF StatusOK, Whole, LegsIn
  <1>7. ASSUME NEW r \in Rules PROVE CapOK(r)
    <2>1. LiveOf(r) = {}
      BY <1>1 DEF LiveOf, Live
    <2>2. Cap[r] \in Nat
      BY RewardAssumption DEF RewardAssumption
    <2> QED
      BY <1>2, <2>1, <2>2, FS_EmptySet DEF CapOK
  <1>8. TablesInv
    BY <1>1, <1>2, <1>5, <1>6, <1>7 DEF TablesInv
  <1>9. MemoryInv
    <2>1. wk = [w \in Workers |-> Idle] /\ Idle \in WorkerType
      BY RecIdle DEF Init, RecOK
    <2>2. active \in SUBSET Rules /\ due \in Seq(Awards)
          /\ gone \in [Events -> SUBSET RemovalKinds]
      BY RewardAssumption DEF Init, RewardAssumption
    <2> QED
      BY <2>1, <2>2, RecIdle DEF MemoryInv
  <1> QED
    BY <1>8, <1>9

-----------------------------------------------------------------------------
(* The theorems.                                                             *)

\* The tables agree with each other after every transaction, and what a process
\* remembers are messages, awards and rules that exist, however stale.
THEOREM RewardInvariant == Spec => []RewardInv
  <1>1. Init => RewardInv
    BY InitSound
  <1>2. RewardInv /\ [Next]_vars => RewardInv'
    BY StepSound DEF Sound
  <1> QED
    BY <1>1, <1>2, PTL DEF Spec

\* The balance of each wallet is the sum of its ledger entries, for any number
\* of adjustments sent twice, awards, and reversals replayed
\* (RewardWalletRepository.post: "divergence is a sev-1").
THEOREM WalletIsLedgerSum == Spec => []BalanceIsLedgerSum
  <1>1. RewardInv => BalanceIsLedgerSum
    BY DEF RewardInv, TablesInv, WalletOK, BalanceIsLedgerSum
  <1> QED
    BY <1>1, RewardInvariant, PTL

\* A granted award has all its benefits and no other award has any, whichever
\* processes evaluate, sweep, reverse, fail and crash
\* (BenefitDispatcher.apply, compensateAward).
THEOREM GrantsAreWhole == Spec => []GrantIsWhole
  <1>1. RewardInv => GrantIsWhole
    BY WholeIsGrantIsWhole DEF RewardInv, TablesInv
  <1> QED
    BY <1>1, RewardInvariant, PTL

\* No rule spends points the customer does not have; only an agent's adjustment
\* and the taking back of points earned go below zero (debitIfSufficient).
THEOREM RulesNeverOverdraw == Spec => RuleNeverOverdraws
  <1>1. RewardInv /\ [Next]_vars => NoOverdraft
    BY StepSound DEF Sound
  <1>2. RewardInv /\ [Next]_vars =>
           [value'.points < 0 /\ value'.points < value.points =>
              \E e \in value'.entries \ value.entries : e.leg \in {"earn_back", "adjust"}]_vars
    BY <1>1 DEF NoOverdraft
  <1> QED
    BY <1>2, RewardInvariant, PTL DEF Spec, RuleNeverOverdraws

\* A capped rule takes nothing back when content goes: every rule the code
\* writes has reversal policy none (rewards.service.ts:249, 356 and 588).  Where
\* one does, two reversals decided on one reading give a slot back twice, and
\* the cap is exceeded.
CappedRulesKeep == \A r \in Rules : Capped(r) => Policy[r] = "none"

\* However many processes evaluate, hold, grant and skip at once, a capped rule
\* has no more live awards than its cap, and no slot leaks
\* (claimCapSlot, releaseCapSlot).
THEOREM CapsHold ==
    ASSUME CappedRulesKeep PROVE Spec => []CapsAreExact
  <1>1. RewardInv => TypeOK
    BY DEF RewardInv, TablesInv, MemoryInv, WalletOK, TypeOK
  <1>2. RewardInv => CapRespected /\ SlotsMatchAwards
    <2> SUFFICES ASSUME RewardInv, NEW r \in Rules, Capped(r)
                 PROVE  /\ Cardinality(LiveOf(r)) <= Cap[r]
                        /\ ~Held[r] => used[r] = Cardinality(LiveOf(r))
      BY DEF CapRespected, SlotsMatchAwards, LiveOf
    <2>1. CapOK(r) /\ Policy[r] = "none" /\ used[r] \in Nat
      BY DEF CappedRulesKeep, RewardInv, TablesInv
    <2>2. Cap[r] \in Nat
      BY RewardAssumption DEF RewardAssumption
    <2>3. /\ IsFiniteSet(LiveOf(r)) /\ Cardinality(LiveOf(r)) <= used[r] /\ used[r] <= Cap[r]
          /\ ~Held[r] => used[r] = Cardinality(LiveOf(r))
      BY <2>1 DEF CapOK
    <2>4. Cardinality(LiveOf(r)) \in Nat
      BY <2>3, FS_CardinalityType
    <2> QED
      BY <2>1, <2>2, <2>3, <2>4
  <1> QED
    BY <1>1, <1>2, RewardInvariant, PTL DEF CapsAreExact

\* No rule that holds and reverses can turn out to be worth nothing: no rule
\* reverses yet, and the only factor provider answers one.  Where one does, an
\* award read while it was held is skipped, and reversed afterwards.
HeldRulesAreWorth ==
    \A r \in Rules :
        Held[r] /\ Policy[r] = "on_content_deleted" => "points" \notin Benefits[r] \/ 0 \notin Factors

\* What a process is about to reverse is live, or reversed by another since.
SeenOK(s) ==
    Reversible(s) => awards[s.award].status \in {"held", "granted", "reversed"}

SeenInv == \A w \in Workers : \A s \in wk[w].seen : SeenOK(s)

LEMMA SeenStep ==
    ASSUME HeldRulesAreWorth, RewardInv, SeenInv, [Next]_vars
    PROVE  SeenInv'
  <1>1. \A w \in Workers : \A s \in wk[w].seen : s \in Snapshot /\ s.award \in Awards
    BY DEF RewardInv, MemoryInv, RecOK, WorkerType, Snapshot
  <1>2. CASE Orderly
    <2> SUFFICES ASSUME NEW w \in Workers, NEW s \in wk'[w].seen, Reversible(s)
                 PROVE  awards'[s.award].status \in {"held", "granted", "reversed"}
      BY DEF SeenInv, SeenOK, Reversible
    <2>1. s \in wk[w].seen
      BY <1>2 DEF Orderly, Forgets
    <2>2. PICK a \in Awards : a = s.award
      BY <1>1, <2>1
    <2>3. awards[a].status \in {"held", "granted", "reversed"}
      BY <2>1, <2>2 DEF SeenInv, SeenOK
    <2>4. CASE UNCHANGED awards
      BY <2>2, <2>3, <2>4
    <2>5. CASE \E b \in Awards : Decides(b)
      <3>1. PICK b \in Awards : Decides(b)
        BY <2>5
      <3>2. CASE a # b
        BY <2>2, <2>3, <3>1, <3>2 DEF Decides
      <3>3. CASE a = b
        <4>1. awards[a].status = "held"
          BY <2>3, <3>1, <3>3 DEF Decides, Settled
        <4>2. PICK r \in Rules : r = a[1]
          BY AwardRule
        <4>3. Held[r] /\ Policy[r] = "on_content_deleted"
          BY <2>2, <4>1, <4>2 DEF RewardInv, TablesInv, StatusOK, Reversible
        <4>4. ~ \E factor \in Factors : Worthless(a, factor)
          BY <4>2, <4>3 DEF HeldRulesAreWorth, Worthless
        <4> QED
          BY <2>2, <3>1, <3>3, <4>1, <4>4 DEF Decides
      <3> QED
        BY <3>2, <3>3
    <2> QED
      BY <1>2, <2>4, <2>5 DEF Orderly
  <1>3. CASE \E w \in Workers, e \in Events, how \in Removals : ContentGone(w, e, how)
    <2>1. PICK e \in Events :
              UNCHANGED awards
              /\ \A v \in Workers : wk'[v].seen \subseteq wk[v].seen \cup AsRead(e)
      BY <1>3, ContentGoneSound
    <2>2. ASSUME NEW s \in AsRead(e) PROVE SeenOK(s)
      BY DEF AsRead, SeenOK, Reversible, Live
    <2>3. ASSUME NEW v \in Workers, NEW s \in wk'[v].seen PROVE SeenOK(s)'
      <3>1. SeenOK(s)
        BY <2>1, <2>2 DEF SeenInv
      <3> QED
        BY <2>1, <3>1 DEF SeenOK, Reversible
    <2> QED
      BY <2>3 DEF SeenInv
  <1>4. CASE \E w \in Workers : \E s \in wk[w].seen : Reverse(w, s)
    <2>0. PICK u \in Workers : \E t \in wk[u].seen : Reverse(u, t)
      BY <1>4
    <2>1. PICK t \in wk[u].seen : Reverse(u, t)
      BY <2>0
    <2>2. /\ Forgets /\ t \in Snapshot
          /\ \A b \in Awards \ {t.award} : awards'[b] = awards[b]
          /\ awards'[t.award].status = "reversed"
      <3>1. /\ Forgets /\ t \in Snapshot
            /\ \A b \in Awards \ {t.award} : awards'[b] = awards[b]
            /\ awards'[t.award] = [status |-> "reversed", period |-> awards[t.award].period]
        BY <2>1, ReverseSound
      <3> QED
        BY <3>1
    <2>3. ASSUME NEW v \in Workers, NEW s \in wk'[v].seen PROVE SeenOK(s)'
      <3>1. s \in wk[v].seen
        BY <2>2 DEF Forgets
      <3>2. SeenOK(s) /\ s.award \in Awards
        BY <1>1, <3>1 DEF SeenInv
      <3> QED
        BY <2>2, <3>2 DEF SeenOK, Reversible
    <2> QED
      BY <2>3 DEF SeenInv
  <1> QED
    BY <1>2, <1>3, <1>4, StepSound

\* A decided award is never decided again, although sweeps and reversals act on
\* what they read before (lockHeldAward, createIfAbsent).
THEOREM SettledIsFinal ==
    ASSUME HeldRulesAreWorth PROVE Spec => SettledAwardIsFinal
  <1>1. Init => SeenInv
    BY DEF Init, Idle, SeenInv
  <1>2. RewardInv /\ SeenInv /\ [Next]_vars => SeenInv'
    BY SeenStep
  <1>3. RewardInv /\ SeenInv /\ [Next]_vars =>
           [\A a \in Awards : awards[a].status \in Settled =>
               \/ awards'[a] = awards[a]
               \/ awards[a].status = "granted" /\ awards'[a].status = "reversed"]_vars
    <2> SUFFICES ASSUME RewardInv, SeenInv, [Next]_vars, NEW a \in Awards,
                        awards[a].status \in Settled, awards'[a] # awards[a]
                 PROVE  awards[a].status = "granted" /\ awards'[a].status = "reversed"
      OBVIOUS
    <2>1. CASE Orderly
      BY <2>1 DEF Orderly, Decides
    <2>2. CASE \E w \in Workers, e \in Events, how \in Removals : ContentGone(w, e, how)
      BY <2>2 DEF ContentGone
    <2>3. CASE \E w \in Workers : \E s \in wk[w].seen : Reverse(w, s)
      <3>0. PICK w \in Workers : \E s \in wk[w].seen : Reverse(w, s)
        BY <2>3
      <3>1. PICK s \in wk[w].seen : Reverse(w, s)
        BY <3>0
      <3>2. /\ Reversible(s)
            /\ \A b \in Awards \ {s.award} : awards'[b] = awards[b]
            /\ awards'[s.award] = [status |-> "reversed", period |-> awards[s.award].period]
        BY <3>1, ReverseSound
      <3>3. a = s.award
        BY <3>2
      <3>4. awards[a].status \in {"granted", "reversed"}
        BY <3>1, <3>2, <3>3 DEF SeenInv, SeenOK, Settled
      <3>5. awards[a].status # "reversed"
        <4>1. awards[a] = [status |-> awards[a].status, period |-> awards[a].period]
          BY DEF RewardInv, TablesInv, AwardType
        <4> QED
          BY <3>2, <3>3, <4>1
      <3> QED
        BY <3>2, <3>3, <3>4, <3>5
    <2> QED
      BY <2>1, <2>2, <2>3, StepSound
  <1> QED
    BY <1>1, <1>2, <1>3, RewardInvariant, PTL DEF Spec, SettledAwardIsFinal

=============================================================================
