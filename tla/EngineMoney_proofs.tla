------------------------ MODULE EngineMoney_proofs -------------------------
(***************************************************************************)
(* Theorems about the money of Engine, for every market, every number of   *)
(* positions and every cost: types (cash is never negative), the account   *)
(* of the day (Conserved), and what the sweep leaves (Invested).           *)
(*                                                                         *)
(* MarketValue is a recursive sum over a set.  What is shown of it here is *)
(* shown by minimal counterexample: among the subsets of a finite set that *)
(* lack a property there would be a minimal one.                           *)
(***************************************************************************)
EXTENDS Engine_proofs, FiniteSetTheorems, WellFoundedInduction

(* The element of s that MarketValue takes first. *)
First(s) == CHOOSE x \in s : TRUE

(* f gives the sums of the subsets of S, as MarketValue computes them.     *)
Sums(S, f) ==
  f = [s \in SUBSET S |-> IF s = {} THEN 0 ELSE First(s).value + f[s \ {First(s)}]]

-----------------------------------------------------------------------------
(* Among subsets of a finite set there is a minimal one. *)
LEMMA MinimalSubset ==
  ASSUME NEW S, IsFiniteSet(S), NEW B, B \subseteq SUBSET S, B # {}
  PROVE  \E s \in B : \A t \in B : t \subseteq s => t = s
<1>1. IsWellFoundedOn(StrictSubsetOrdering(S), SUBSET S)
  BY FS_StrictSubsetOrderingWellFounded, FS_FiniteSubsetsOfFinite
<1>2. PICK s \in B : \A t \in B : ~ (<<t, s>> \in StrictSubsetOrdering(S))
  BY <1>1, WFMin
<1>3. \A t \in B : t \subseteq s /\ t # s => <<t, s>> \in StrictSubsetOrdering(S)
  BY DEF StrictSubsetOrdering
<1> SUFFICES ASSUME NEW t \in B, t \subseteq s PROVE t = s
  BY <1>2
<1> QED
  BY <1>2, <1>3

(* First takes an element. *)
LEMMA FirstIn == ASSUME NEW s, s # {} PROVE First(s) \in s
BY DEF First

(* Two functions that satisfy the recursion agree where both are defined.  *)
LEMMA SumsAgree ==
  ASSUME NEW S, NEW T, NEW f, NEW g, IsFiniteSet(S), Sums(S, f), Sums(T, g)
  PROVE  \A s \in SUBSET (S \cap T) : f[s] = g[s]
<1> DEFINE B == {s \in SUBSET (S \cap T) : f[s] # g[s]}
<1> SUFFICES ASSUME B # {} PROVE FALSE
  OBVIOUS
<1>1. PICK s \in B : \A t \in B : t \subseteq s => t = s
  <2>1. B \subseteq SUBSET S
    OBVIOUS
  <2> HIDE DEF B
  <2> QED
    BY <2>1, MinimalSubset
<1>2. s \in SUBSET S /\ s \in SUBSET T
  OBVIOUS
<1>3. s # {}
  BY <1>2 DEF Sums
<1>4. First(s) \in s
  BY <1>3, FirstIn
<1>5. f[s \ {First(s)}] = g[s \ {First(s)}]
  <2>1. s \ {First(s)} \notin B
    BY <1>1, <1>4
  <2> QED
    BY <1>2, <2>1
<1>6. f[s] = First(s).value + f[s \ {First(s)}]
  BY <1>2, <1>3 DEF Sums
<1>7. g[s] = First(s).value + g[s \ {First(s)}]
  BY <1>2, <1>3 DEF Sums
<1> QED
  BY <1>5, <1>6, <1>7

(* There is such a function for every finite set. *)
LEMMA SumsExist ==
  ASSUME NEW S, IsFiniteSet(S)
  PROVE  \E f : Sums(S, f)
<1> DEFINE B == {s \in SUBSET S : ~ \E f : Sums(s, f)}
<1> SUFFICES ASSUME B # {} PROVE FALSE
  OBVIOUS
<1>1. PICK s \in B : \A t \in B : t \subseteq s => t = s
  <2>1. B \subseteq SUBSET S
    OBVIOUS
  <2> HIDE DEF B
  <2> QED
    BY <2>1, MinimalSubset
<1> DEFINE F(t) == CHOOSE f : Sums(t, f)
           v(t) == IF t = {} THEN 0
                   ELSE First(t).value + F(t \ {First(t)})[t \ {First(t)}]
           g == [t \in SUBSET s |-> v(t)]
<1>2. ASSUME NEW t \in SUBSET s, t # s PROVE Sums(t, F(t))
  <2>1. t \notin B /\ t \in SUBSET S
    BY <1>1, <1>2
  <2> QED
    BY <2>1
<1>3. ASSUME NEW t \in SUBSET s, t # s PROVE v(t) = F(t)[t]
  <2>1. Sums(t, F(t))
    BY <1>2, <1>3
  <2>2. CASE t = {}
    BY <2>1, <2>2 DEF Sums
  <2>3. CASE t # {}
    <3> DEFINE u == t \ {First(t)}
    <3>1. First(t) \in t
      BY <2>3, FirstIn
    <3>2. u \in SUBSET s /\ u # s /\ u \subseteq t
      BY <1>3, <3>1
    <3>3. Sums(u, F(u))
      BY <1>2, <3>2
    <3>4. IsFiniteSet(t)
      BY <1>3, FS_Subset
    <3>5. F(t)[u] = F(u)[u]
      <4> HIDE DEF u, F
      <4> QED
        BY <2>1, <3>2, <3>3, <3>4, SumsAgree
    <3>6. F(t)[t] = First(t).value + F(t)[u]
      <4> HIDE DEF F
      <4> QED
        BY <2>1, <2>3 DEF Sums
    <3> QED
      BY <2>3, <3>5, <3>6
  <2> QED
    BY <2>2, <2>3
<1>4. ASSUME NEW t \in SUBSET s
      PROVE  v(t) = IF t = {} THEN 0 ELSE First(t).value + g[t \ {First(t)}]
  <2>1. CASE t = {}
    BY <2>1
  <2>2. CASE t # {}
    <3> DEFINE u == t \ {First(t)}
    <3>1. First(t) \in t
      BY <2>2, FirstIn
    <3>2. u \in SUBSET s /\ u # s
      BY <3>1
    <3>3. g[u] = v(u)
      BY <3>2
    <3>4. v(u) = F(u)[u]
      <4> HIDE DEF u, v, F
      <4> QED
        BY <1>3, <3>2
    <3> QED
      BY <2>2, <3>3, <3>4
  <2> QED
    BY <2>1, <2>2
<1>5. Sums(s, g)
  <2> HIDE DEF v, F
  <2> QED
    BY <1>4 DEF Sums
<1> QED
  BY <1>5

(* So MarketValue is the sum it looks like. *)
LEMMA MarketValueRecursion ==
  ASSUME NEW S, IsFiniteSet(S)
  PROVE  MarketValue(S) = IF S = {} THEN 0
                          ELSE First(S).value + MarketValue(S \ {First(S)})
<1> DEFINE F(T) == CHOOSE f : Sums(T, f)
<1>1. \A T : MarketValue(T) = F(T)[T]
  BY Zenon DEF MarketValue, MapThenSumSet, MapThenFoldSet, Sums, First
<1>2. ASSUME NEW T \in SUBSET S PROVE Sums(T, F(T))
  <2>1. IsFiniteSet(T)
    BY <1>2, FS_Subset
  <2> QED
    BY <2>1, SumsExist
<1> DEFINE U == S \ {First(S)}
<1>3. F(S)[S] = IF S = {} THEN 0 ELSE First(S).value + F(S)[U]
  <2>1. Sums(S, F(S))
    BY <1>2
  <2> HIDE DEF F
  <2> QED
    BY <2>1 DEF Sums
<1>4. F(S)[U] = F(U)[U]
  <2>1. Sums(S, F(S)) /\ Sums(U, F(U))
    BY <1>2
  <2>2. U \in SUBSET (S \cap U)
    OBVIOUS
  <2> HIDE DEF F, U
  <2> QED
    BY <2>1, <2>2, SumsAgree
<1> HIDE DEF F
<1> QED
  BY <1>1, <1>3, <1>4

(* Positions with a value. *)
Valued(S) == IsFiniteSet(S) /\ \A p \in S : p.value \in Nat

(* It is a natural number. *)
LEMMA MarketValueType == ASSUME NEW S, Valued(S) PROVE MarketValue(S) \in Nat
<1> DEFINE B == {s \in SUBSET S : MarketValue(s) \notin Nat}
<1> SUFFICES ASSUME B # {} PROVE FALSE
  BY DEF Valued
<1>1. PICK s \in B : \A t \in B : t \subseteq s => t = s
  <2>1. B \subseteq SUBSET S
    OBVIOUS
  <2> HIDE DEF B
  <2> QED
    BY <2>1, MinimalSubset DEF Valued
<1>2. IsFiniteSet(s)
  BY FS_Subset DEF Valued
<1>3. s # {}
  <2> SUFFICES ASSUME s = {} PROVE FALSE
    OBVIOUS
  <2>1. MarketValue(s) = 0
    BY <1>2, MarketValueRecursion
  <2>2. MarketValue(s) \notin Nat
    BY <1>1
  <2> QED
    BY <2>1, <2>2
<1>4. First(s) \in s /\ First(s).value \in Nat
  BY <1>3, FirstIn DEF Valued
<1>5. MarketValue(s \ {First(s)}) \in Nat
  BY <1>1, <1>4
<1> QED
  BY <1>2, <1>3, <1>4, <1>5, MarketValueRecursion

(* Any element may be taken out first. *)
LEMMA MarketValueWithout ==
  ASSUME NEW S, Valued(S), NEW p \in S
  PROVE  MarketValue(S) = p.value + MarketValue(S \ {p})
<1> DEFINE B == {s \in SUBSET S :
                   \E y \in s : MarketValue(s) # y.value + MarketValue(s \ {y})}
<1> SUFFICES ASSUME B # {} PROVE FALSE
  OBVIOUS
<1>1. PICK s \in B : \A t \in B : t \subseteq s => t = s
  <2>1. B \subseteq SUBSET S
    OBVIOUS
  <2> HIDE DEF B
  <2> QED
    BY <2>1, MinimalSubset DEF Valued
<1>2. PICK y \in s : MarketValue(s) # y.value + MarketValue(s \ {y})
  OBVIOUS
<1>3. \A t \in SUBSET s : Valued(t)
  BY FS_Subset DEF Valued
<1> DEFINE x == First(s)
<1>4. x \in s /\ x # y
  <2>1. x \in s
    BY FirstIn
  <2>2. MarketValue(s) = x.value + MarketValue(s \ {x})
    BY <1>3, MarketValueRecursion DEF Valued
  <2> QED
    BY <1>2, <2>1, <2>2
<1> HIDE DEF x
<1>5. MarketValue(s) = x.value + MarketValue(s \ {x})
  BY <1>3, <1>4, MarketValueRecursion DEF Valued, x
<1>6. MarketValue(s \ {x}) = y.value + MarketValue((s \ {x}) \ {y})
  <2>1. s \ {x} \notin B
    BY <1>1, <1>4
  <2> QED
    BY <1>4, <2>1
<1>7. MarketValue(s \ {y}) = x.value + MarketValue((s \ {y}) \ {x})
  <2>1. s \ {y} \notin B
    BY <1>1, <1>4
  <2> QED
    BY <1>4, <2>1
<1>8. (s \ {x}) \ {y} = (s \ {y}) \ {x}
  OBVIOUS
<1>9. MarketValue((s \ {x}) \ {y}) \in Nat /\ x.value \in Nat /\ y.value \in Nat
  <2>1. Valued((s \ {x}) \ {y}) /\ Valued(s)
    BY <1>3
  <2> QED
    BY <1>4, <2>1, MarketValueType DEF Valued
<1> QED
  BY <1>2, <1>5, <1>6, <1>7, <1>8, <1>9

(* A position more adds its value. *)
LEMMA MarketValueWith ==
  ASSUME NEW S, Valued(S), NEW p, p \notin S, p.value \in Nat
  PROVE  Valued(S \cup {p}) /\ MarketValue(S \cup {p}) = MarketValue(S) + p.value
<1>1. Valued(S \cup {p})
  BY FS_AddElement DEF Valued
<1>2. (S \cup {p}) \ {p} = S
  OBVIOUS
<1>3. MarketValue(S) \in Nat
  BY MarketValueType
<1> QED
  BY <1>1, <1>2, <1>3, MarketValueWithout

(* Rewriting positions one by one without touching their values keeps the  *)
(* sum.                                                                    *)
LEMMA MarketValueRewritten ==
  ASSUME NEW S, NEW F, NEW T, Valued(S), T = {F[p] : p \in S},
         \A p \in S : F[p].value = p.value,
         \A p, q \in S : F[p] = F[q] => p = q
  PROVE  Valued(T) /\ MarketValue(T) = MarketValue(S)
<1> DEFINE Image(s) == {F[p] : p \in s}
           B == {s \in SUBSET S :
                   ~ (Valued(Image(s)) /\ MarketValue(Image(s)) = MarketValue(s))}
<1> SUFFICES ASSUME B # {} PROVE FALSE
  OBVIOUS
<1>1. PICK s \in B : \A t \in B : t \subseteq s => t = s
  <2>1. B \subseteq SUBSET S
    OBVIOUS
  <2> HIDE DEF B
  <2> QED
    BY <2>1, MinimalSubset DEF Valued
<1>2. \A t \in SUBSET s : Valued(t)
  BY FS_Subset DEF Valued
<1>3. s # {}
  <2> SUFFICES ASSUME s = {} PROVE FALSE
    OBVIOUS
  <2>1. Image(s) = {} /\ s = {}
    OBVIOUS
  <2>2. Valued({})
    BY FS_EmptySet DEF Valued
  <2>3. ~ (Valued(Image(s)) /\ MarketValue(Image(s)) = MarketValue(s))
    OBVIOUS
  <2> QED
    BY <2>1, <2>2, <2>3, Zenon
<1> DEFINE x == First(s)
           u == s \ {x}
<1>4. x \in s
  BY <1>3, FirstIn
<1>5. Valued(Image(u)) /\ MarketValue(Image(u)) = MarketValue(u)
  <2>1. u \notin B /\ u \in SUBSET S
    BY <1>1, <1>4
  <2> QED
    BY <2>1
<1>6. F[x] \notin Image(u) /\ F[x].value = x.value /\ x.value \in Nat
      /\ Image(s) = Image(u) \cup {F[x]}
  <2> HIDE DEF x
  <2> QED
    BY <1>4 DEF Valued
<1>7. Valued(Image(s)) /\ MarketValue(Image(s)) = MarketValue(u) + x.value
  <2> HIDE DEF Image, u, x
  <2> QED
    BY <1>5, <1>6, MarketValueWith
<1>8. MarketValue(s) = x.value + MarketValue(u) /\ MarketValue(u) \in Nat
  <2>1. Valued(s) /\ Valued(u)
    BY <1>2
  <2> HIDE DEF x
  <2> QED
    BY <1>4, <2>1, MarketValueWithout, MarketValueType
<1>9. ~ (Valued(Image(s)) /\ MarketValue(Image(s)) = MarketValue(s))
  OBVIOUS
<1> HIDE DEF Image, x, u
<1> QED
  BY <1>6, <1>7, <1>8, <1>9

-----------------------------------------------------------------------------
(* A floor division by a positive number. *)
LEMMA Floor ==
  ASSUME NEW n \in Nat, NEW b \in Nat \ {0}
  PROVE  /\ n \div b \in Nat
         /\ (n \div b) * b <= n
         /\ n < (n \div b + 1) * b
OBVIOUS

(* A larger number does not have a smaller quotient. *)
LEMMA FloorMonotone ==
  ASSUME NEW m \in Nat, NEW n \in Nat, m <= n, NEW b \in Nat \ {0}
  PROVE  m \div b <= n \div b
<1> DEFINE q == m \div b
           r == n \div b
<1>1. q \in Nat /\ q * b <= m /\ r \in Nat /\ n < (r + 1) * b
  BY Floor
<1> HIDE DEF q, r
<1>2. q * b < (r + 1) * b
  BY <1>1
<1>3. ASSUME q >= r + 1 PROVE FALSE
  <2>1. q * b >= (r + 1) * b
    BY <1>1, <1>3
  <2> QED
    BY <1>1, <1>2, <2>1
<1>4. q <= r
  BY <1>1, <1>3
<1> QED
  BY <1>4 DEF q, r

(* The dearer of the two costs. *)
Cost == Max({BuyCost, SellCost})

(* It bounds both. *)
LEMMA CostBounds == Cost \in Nat /\ BuyCost <= Cost /\ SellCost <= Cost
<1> DEFINE S == {BuyCost, SellCost}
<1>1. BuyCost \in Nat /\ SellCost \in Nat
  BY EngineAssumption
<1>2. \E x \in S : \A y \in S : x >= y
  BY <1>1
<1>3. Cost \in S /\ \A y \in S : Cost >= y
  BY <1>2 DEF Cost, Max
<1> QED
  BY <1>1, <1>3

(* A sale loses at most its cost. *)
LEMMA SaleCost ==
  ASSUME NEW v \in Nat
  PROVE  /\ Proceeds(v) \in Nat /\ Proceeds(v) <= v
         /\ (v - Proceeds(v)) * Base <= v * Cost
<1> DEFINE q == (v * SellCost) \div Base
<1>1. Base \in Nat \ {0} /\ SellCost \in Nat /\ SellCost < Base /\ v * SellCost \in Nat
  BY EngineAssumption
<1>2. q \in Nat /\ q * Base <= v * SellCost
  BY <1>1, Floor
<1>3. v * SellCost <= v * Cost /\ v * SellCost <= v * Base
  BY <1>1, CostBounds
<1>4. q <= v
  <2>1. ASSUME q > v PROVE FALSE
    <3>1. q * Base > v * Base
      BY <1>1, <1>2, <2>1
    <3> QED
      BY <1>1, <1>2, <1>3, <3>1
  <2> QED
    BY <1>2, <2>1
<1>5. Proceeds(v) = v - q
  BY DEF Proceeds
<1> HIDE DEF q
<1>6. v - Proceeds(v) = q
  BY <1>2, <1>5
<1>7. q * Base \in Nat /\ v * Cost \in Nat
  BY <1>1, <1>2, CostBounds
<1> QED
  BY <1>1, <1>2, <1>3, <1>4, <1>5, <1>6, <1>7

(* So does a purchase, *)
LEMMA PurchaseCost ==
  ASSUME NEW m \in Nat
  PROVE  /\ Bought(m) \in Nat /\ Bought(m) <= m
         /\ (m - Bought(m)) * Base <= m * Cost
<1> DEFINE b == Base + BuyCost
           q == (m * BuyCost) \div b
<1>1. /\ Base \in Nat \ {0} /\ BuyCost \in Nat /\ b \in Nat \ {0}
      /\ m * BuyCost \in Nat
  BY EngineAssumption
<1>2. q \in Nat /\ q * b <= m * BuyCost
  BY <1>1, Floor
<1>3. m * BuyCost <= m * Cost /\ m * BuyCost <= m * b
  BY <1>1, CostBounds
<1>4. q <= m
  <2>1. ASSUME q > m PROVE FALSE
    <3> HIDE DEF q, b
    <3>1. q * b > m * b
      BY <1>1, <1>2, <2>1
    <3> QED
      BY <1>1, <1>2, <1>3, <3>1
  <2> QED
    BY <1>2, <2>1
<1>5. q * Base <= q * b
  <2> HIDE DEF q
  <2> QED
    BY <1>1, <1>2
<1>6. Bought(m) = m - q
  BY DEF Bought
<1> HIDE DEF q, b
<1>7. m - Bought(m) = q
  BY <1>2, <1>6
<1>8. q * Base \in Nat /\ q * b \in Nat /\ m * Cost \in Nat
  BY <1>1, <1>2, CostBounds
<1> QED
  BY <1>1, <1>2, <1>3, <1>4, <1>5, <1>6, <1>7, <1>8

(* and a smaller one no more than a larger one. *)
LEMMA PurchaseCostMonotone ==
  ASSUME NEW m \in Nat, NEW n \in Nat, m <= n
  PROVE  m - Bought(m) <= n - Bought(n)
<1> DEFINE b == Base + BuyCost
<1>1. BuyCost \in Nat /\ b \in Nat \ {0}
  BY EngineAssumption
<1> HIDE DEF b
<1>2. m * BuyCost \in Nat /\ n * BuyCost \in Nat /\ m * BuyCost <= n * BuyCost
  BY <1>1
<1>3. /\ (m * BuyCost) \div b <= (n * BuyCost) \div b
      /\ (m * BuyCost) \div b \in Nat /\ (n * BuyCost) \div b \in Nat
  BY <1>1, <1>2, Floor, FloorMonotone
<1>4. /\ Bought(m) = m - (m * BuyCost) \div b
      /\ Bought(n) = n - (n * BuyCost) \div b
  BY DEF Bought, b
<1> QED
  BY <1>3, <1>4

-----------------------------------------------------------------------------
(* The asset is neither suspended nor at a limit. *)
Tradeable(p) == p.a \notin susp \cup lim

(* The ranks to buy are used up when the sweep begins. *)
BoughtOut == phase \notin {"sell", "buy"} => buy = {}

(* The sweep's list names tradeable positions with what they lack. *)
Lacking ==
  phase = "sweep" =>
    \A d \in defs : \E p \in holdings :
      Tradeable(p) /\ p.a = d.a /\ p.value < target /\ d.def = target - p.value

(* While cash is left, a tradeable position has its target, or is on the   *)
(* list, or has been topped up to it but for the cost.                     *)
Swept ==
  phase = "sweep" /\ cash > 0 =>
    \A p \in holdings : Tradeable(p) =>
      \/ [a |-> p.a, def |-> target - p.value] \in defs
      \/ p.value + (target - Bought(target)) >= target

(* The inductive invariant of the money. *)
MInv == TypeOK /\ Conserved /\ BoughtOut /\ Lacking /\ Swept

(* The book is finite, and its positions have values. *)
LEMMA Book ==
  ASSUME IInv, TypeOK
  PROVE  Valued(holdings) /\ MarketValue(holdings) \in Nat
<1>1. IsFiniteSet(Asset)
  BY EngineAssumption
<1> DEFINE f == [p \in holdings |-> p.a]
<1>2. f \in Injection(holdings, Asset)
  BY DEF IInv, OnePosition, TypeOK, Pos, Injection, IsInjective
<1>3. IsFiniteSet(holdings)
  <2> HIDE DEF f
  <2> QED
    BY <1>1, <1>2, FS_Injection
<1>4. Valued(holdings)
  BY <1>3 DEF Valued, TypeOK, Pos
<1> QED
  BY <1>4, MarketValueType

(* A trade of amount v that loses l at most at cost keeps the account.     *)
LEMMA Trade ==
  ASSUME NEW w \in Nat, NEW x \in Nat, NEW t \in Nat, NEW v \in Nat, NEW l \in Nat,
         w <= x, (x - w) * Base <= t * Cost, l <= w, l * Base <= v * Cost
  PROVE  w - l <= x /\ (x - (w - l)) * Base <= (t + v) * Cost
<1>1. Base \in Nat /\ Cost \in Nat
  BY EngineAssumption, CostBounds
<1>2. (x - (w - l)) * Base = (x - w) * Base + l * Base
  BY <1>1
<1>3. (t + v) * Cost = t * Cost + v * Cost
  BY <1>1
<1>4. /\ (x - w) * Base \in Nat /\ l * Base \in Nat
      /\ t * Cost \in Nat /\ v * Cost \in Nat
  BY <1>1
<1> QED
  BY <1>1, <1>2, <1>3, <1>4

(* The initial states satisfy the invariant. *)
LEMMA MoneyInitially == Init => MInv
<1> SUFFICES ASSUME Init PROVE MInv
  OBVIOUS
<1> USE DEF Init
<1>1. TypeOK
  BY EngineAssumption DEF TypeOK, None
<1>2. Conserved /\ BoughtOut /\ Lacking /\ Swept
  BY DEF Conserved, BoughtOut, Lacking, Swept
<1> QED
  BY <1>1, <1>2 DEF MInv

(* A new day: values fall, but stay natural numbers. *)
LEMMA OpenDayMoney ==
  ASSUME IInv, MInv, NEW s \in SUBSET Asset, NEW l \in SUBSET Asset,
         NEW d \in SUBSET Asset, NEW falls \in SUBSET Asset, OpenDay(s, l, d, falls)
  PROVE  MInv'
<1>1. /\ phase = "closed" /\ phase' = "delist" /\ day' = day + 1 /\ day < LastDay
      /\ UNCHANGED <<cash, pv, cands, buy, target, defs, open_recs, streaks>>
      /\ turn_amt' = 0 /\ susp' = s /\ lim' = l /\ delisted' = delisted \cup d
      /\ priced' \in {priced, Asset}
  BY DEF OpenDay
<1>2. ASSUME NEW v \in Nat PROVE Fallen(v) \in Nat
  <2>1. v \div 2 \in Nat /\ (v \div 2) * 2 <= v
    BY Floor
  <2> QED
    BY <2>1 DEF Fallen
<1>3. holdings' \subseteq Pos
  <2> SUFFICES ASSUME NEW p \in holdings
               PROVE  (IF p.a \in falls THEN [p EXCEPT !.value = Fallen(@)] ELSE p) \in Pos
    BY DEF OpenDay
  <2>1. p \in Pos
    BY DEF MInv, TypeOK
  <2>2. Fallen(p.value) \in Nat
    BY <1>2, <2>1 DEF Pos
  <2> QED
    BY <2>1, <2>2 DEF Pos
<1>4. shocks' \in 0 .. MaxShocks
  <2>1. IsFiniteSet(Asset)
    BY EngineAssumption
  <2>2. /\ Cardinality(s) \in Nat /\ Cardinality(l) \in Nat
        /\ Cardinality(d) \in Nat /\ Cardinality(falls) \in Nat
    BY <2>1, FS_Subset, FS_CardinalityType
  <2>3. shocks \in Nat /\ MaxShocks \in Nat
    BY EngineAssumption DEF MInv, TypeOK
  <2>4. /\ shocks' = shocks + Cardinality(s) + Cardinality(l) + Cardinality(d)
                       + Cardinality(falls)
        /\ shocks' <= MaxShocks
    BY DEF OpenDay
  <2> QED
    BY <2>2, <2>3, <2>4
<1>5. day' \in 0 .. LastDay
  BY <1>1, EngineAssumption DEF MInv, TypeOK
<1>6. TypeOK'
  BY <1>1, <1>3, <1>4, <1>5 DEF MInv, TypeOK, streaks
<1>7. Conserved' /\ BoughtOut' /\ Lacking' /\ Swept'
  BY <1>1 DEF MInv, Conserved, BoughtOut, Lacking, Swept
<1> QED
  BY <1>6, <1>7 DEF MInv

(* A sale takes a position out and loses at most its cost. *)
LEMMA SaleMoney ==
  ASSUME IInv, MInv, NEW p \in holdings,
         holdings' = holdings \ {p}, cash' = cash + Proceeds(p.value),
         turn_amt' = turn_amt + p.value,
         open_recs' = [open_recs EXCEPT ![p.a] = None],
         phase \in {"delist", "sell"},
         UNCHANGED <<day, phase, pv, cands, buy, target, defs, market, streaks>>
  PROVE  MInv'
<1>1. p \in Pos
  BY DEF MInv, TypeOK
<1>2. /\ Proceeds(p.value) \in Nat /\ Proceeds(p.value) <= p.value /\ p.value \in Nat
      /\ (p.value - Proceeds(p.value)) * Base <= p.value * Cost
  BY <1>1, SaleCost DEF Pos
<1>3. TypeOK'
  <2>1. holdings' \subseteq Pos
    BY DEF MInv, TypeOK
  <2>2. cash' \in Nat /\ turn_amt' \in Nat
    BY <1>2 DEF MInv, TypeOK
  <2>3. open_recs' \in [Asset -> 0 .. LastDay]
    <3>1. None \in 0 .. LastDay
      BY EngineAssumption DEF None
    <3> QED
      BY <3>1 DEF MInv, TypeOK
  <2> QED
    BY <2>1, <2>2, <2>3 DEF MInv, TypeOK, streaks, market
<1>4. Conserved'
  <2> SUFFICES ASSUME phase = "sell"
               PROVE  LET worth == cash' + MarketValue(holdings')
                      IN  /\ worth <= pv
                          /\ (pv - worth) * Base <= turn_amt' * Cost
    BY DEF Conserved, Cost
  <2> DEFINE w == cash + MarketValue(holdings)
             l == p.value - Proceeds(p.value)
  <2>1. /\ MarketValue(holdings) = p.value + MarketValue(holdings \ {p})
        /\ MarketValue(holdings) \in Nat /\ cash \in Nat /\ pv \in Nat /\ turn_amt \in Nat
    BY Book, MarketValueWithout DEF MInv, TypeOK
  <2>2. MarketValue(holdings \ {p}) \in Nat
    <3>1. Valued(holdings \ {p})
      BY Book, FS_Subset DEF Valued, MInv
    <3> QED
      BY <3>1, MarketValueType
  <2>3. w <= pv /\ (pv - w) * Base <= turn_amt * Cost
    BY DEF MInv, Conserved, Cost
  <2>4. w \in Nat /\ l \in Nat /\ l <= w /\ cash' + MarketValue(holdings') = w - l
    BY <1>2, <2>1, <2>2
  <2> HIDE DEF w
  <2>5. w - l <= pv /\ (pv - (w - l)) * Base <= (turn_amt + p.value) * Cost
    <3>1. l * Base <= p.value * Cost
      BY <1>2
    <3> HIDE DEF l
    <3> QED
      BY <1>2, <2>1, <2>3, <2>4, <3>1, Trade
  <2> QED
    BY <2>4, <2>5
<1>5. BoughtOut' /\ Lacking' /\ Swept'
  BY DEF MInv, BoughtOut, Lacking, Swept
<1> QED
  BY <1>3, <1>4, <1>5 DEF MInv

(* At the mark, the account is square. *)
LEMMA MarkMoney ==
  ASSUME IInv, MInv, Mark
  PROVE  MInv'
<1>1. /\ phase = "delist" /\ phase' = "decide" /\ pv' = cash + MarketValue(holdings)
      /\ UNCHANGED <<day, holdings, cash, turn_amt, cands, buy, target, defs, market,
                     open_recs, streaks>>
  BY DEF Mark
<1>2. cash \in Nat /\ MarketValue(holdings) \in Nat /\ turn_amt \in Nat
  BY Book DEF MInv, TypeOK
<1>3. TypeOK'
  BY <1>1, <1>2 DEF MInv, TypeOK, streaks, market
<1>4. Conserved'
  <2>1. cash' + MarketValue(holdings') = pv' /\ pv' \in Nat
    BY <1>1, <1>2
  <2>2. turn_amt * Cost \in Nat /\ 0 * Base = 0
    BY <1>2, CostBounds, EngineAssumption
  <2> QED
    BY <1>1, <2>1, <2>2 DEF Conserved, Cost
<1>5. BoughtOut' /\ Lacking' /\ Swept'
  BY <1>1 DEF MInv, BoughtOut, Lacking, Swept
<1> QED
  BY <1>3, <1>4, <1>5 DEF MInv

(* The decision marks positions and leaves their values alone. *)
LEMMA DecideMoney ==
  ASSUME IInv, MInv, NEW r \in Rankings, Decide(r)
  PROVE  MInv'
<1> DEFINE F == [p \in holdings |-> [p EXCEPT !.to_sell = ~Stays(p, r)]]
<1>1. /\ phase = "decide" /\ phase' = "sell" /\ cands' = r /\ buy' = Wanted(r, holdings)
      /\ UNCHANGED <<day, cash, turn_amt, pv, target, defs, market, open_recs, streaks>>
  BY DEF Decide
<1>2. holdings' = {F[p] : p \in holdings}
  BY DEF Decide
<1>3. \A p \in holdings : F[p] \in Pos /\ F[p].a = p.a /\ F[p].value = p.value
  BY DEF MInv, TypeOK, Pos
<1>4. \A p, q \in holdings : F[p] = F[q] => p = q
  <2> HIDE DEF F
  <2> QED
    BY <1>3 DEF IInv, OnePosition
<1>5. MarketValue(holdings') = MarketValue(holdings)
  <2> HIDE DEF F
  <2>1. Valued(holdings)
    BY Book DEF MInv
  <2>2. \A p \in holdings : F[p].value = p.value
    BY <1>3
  <2> QED
    BY <1>2, <1>4, <2>1, <2>2, MarketValueRewritten
<1>6. r \in Seq(Asset) /\ buy' \subseteq DOMAIN r
  <2>1. r \in Seq(Asset) /\ DOMAIN r = 1 .. Len(r) /\ Len(r) \in Nat
    BY RankingShape
  <2>2. Wanted(r, holdings) \subseteq 1 .. Least(HoldN, Len(r))
    BY DEF Wanted, Eligible
  <2>3. 1 .. Least(HoldN, Len(r)) \subseteq 1 .. Len(r)
    BY <2>1, EngineAssumption DEF Least
  <2> QED
    BY <1>1, <2>1, <2>2, <2>3
<1>7. TypeOK'
  <2>1. holdings' \subseteq Pos
    <3> HIDE DEF F
    <3> QED
      BY <1>2, <1>3
  <2> QED
    BY <1>1, <1>6, <2>1 DEF MInv, TypeOK, streaks, market
<1>8. Conserved'
  BY <1>1, <1>5 DEF MInv, Conserved
<1>9. BoughtOut' /\ Lacking' /\ Swept'
  BY <1>1 DEF BoughtOut, Lacking, Swept
<1> QED
  BY <1>7, <1>8, <1>9 DEF MInv

(* The target is a natural number; nothing is traded. *)
LEMMA SetTargetMoney ==
  ASSUME IInv, MInv, SetTarget
  PROVE  MInv'
<1>1. /\ phase = "sell" /\ phase' = "buy"
      /\ target' = (cash + MarketValue(holdings) + HoldN - 1) \div HoldN
      /\ UNCHANGED <<day, holdings, cash, turn_amt, pv, cands, buy, defs, market,
                     open_recs, streaks>>
  BY DEF SetTarget
<1>2. target' \in Nat
  <2>1. HoldN \in Nat \ {0} /\ cash + MarketValue(holdings) + HoldN - 1 \in Nat
    BY Book, EngineAssumption DEF MInv, TypeOK
  <2> QED
    BY <1>1, <2>1, Floor
<1>3. TypeOK'
  BY <1>1, <1>2 DEF MInv, TypeOK, streaks, market
<1>4. Conserved' /\ BoughtOut' /\ Lacking' /\ Swept'
  BY <1>1 DEF MInv, Conserved, BoughtOut, Lacking, Swept
<1> QED
  BY <1>3, <1>4 DEF MInv

(* A purchase spends no more than there is, and loses at most its cost.    *)
LEMMA BuyNextMoney ==
  ASSUME IInv, MInv, NEW k \in buy, BuyNext(k)
  PROVE  MInv'
<1>1. /\ phase = "buy" /\ buy' = buy \ {k} /\ cash > 0
      /\ UNCHANGED <<day, phase, pv, cands, target, defs, market, streaks>>
  BY DEF BuyNext
<1>2. k \in DOMAIN cands /\ cands[k] \notin Held /\ cands[k] \in Asset
  BY <1>1 DEF IInv, ToBuy, Ranked, Trading
<1>3. BoughtOut' /\ Lacking' /\ Swept'
  BY <1>1 DEF BoughtOut, Lacking, Swept
<1>4. CASE cands[k] \notin priced
  <2>1. UNCHANGED <<holdings, cash, turn_amt, open_recs>>
    BY <1>4 DEF BuyNext
  <2>2. TypeOK'
    BY <1>1, <2>1 DEF MInv, TypeOK, streaks, market
  <2>3. Conserved'
    BY <1>1, <2>1 DEF MInv, Conserved
  <2> QED
    BY <1>3, <2>2, <2>3 DEF MInv
<1>5. CASE cands[k] \in priced
  <2> DEFINE new == [a |-> cands[k], value |-> Bought(Outlay), to_sell |-> FALSE]
             w == cash + MarketValue(holdings)
             l == Outlay - Bought(Outlay)
  <2>1. /\ holdings' = holdings \cup {new} /\ cash' = cash - Outlay
        /\ turn_amt' = turn_amt + Outlay
        /\ open_recs' = [open_recs EXCEPT ![cands[k]] = day]
    BY <1>5 DEF BuyNext
  <2>2. /\ Outlay \in Nat /\ Outlay <= cash /\ cash \in Nat /\ turn_amt \in Nat /\ pv \in Nat
    BY DEF MInv, TypeOK, Outlay, Least
  <2>3. /\ Bought(Outlay) \in Nat /\ Bought(Outlay) <= Outlay
        /\ l * Base <= Outlay * Cost
    BY <2>2, PurchaseCost
  <2>4. new \in Pos /\ new.a = cands[k] /\ new.value = Bought(Outlay)
    BY <1>2, <2>3 DEF Pos
  <2>5. new \notin holdings
    BY <1>2, <2>4 DEF Held, AssetsOf
  <2> HIDE DEF new
  <2>6. TypeOK'
    BY <1>1, <1>2, <2>1, <2>2, <2>4 DEF MInv, TypeOK, streaks, market
  <2>7. Conserved'
    <3>1. MarketValue(holdings') = MarketValue(holdings) + Bought(Outlay)
      BY <2>1, <2>3, <2>4, <2>5, Book, MarketValueWith DEF MInv
    <3>2. w \in Nat /\ l \in Nat /\ l <= w /\ cash' + MarketValue(holdings') = w - l
      BY <2>1, <2>2, <2>3, <3>1, Book DEF MInv
    <3>3. w <= pv /\ (pv - w) * Base <= turn_amt * Cost
      BY <1>1 DEF MInv, Conserved, Cost
    <3>4. w - l <= pv /\ (pv - (w - l)) * Base <= (turn_amt + Outlay) * Cost
      <4>1. l * Base <= Outlay * Cost
        BY <2>3
      <4> HIDE DEF w, l
      <4> QED
        BY <2>2, <3>2, <3>3, <4>1, Trade
    <3> HIDE DEF w, l
    <3> QED
      BY <1>1, <2>1, <3>2, <3>4 DEF Conserved, Cost
  <2> QED
    BY <1>3, <2>6, <2>7 DEF MInv
<1> QED
  BY <1>4, <1>5

(* The list of the sweep is complete when it is drawn up. *)
LEMMA StartSweepMoney ==
  ASSUME IInv, MInv, StartSweep
  PROVE  MInv'
<1>1. /\ phase = "buy" /\ phase' = "sweep" /\ buy' = {}
      /\ defs' = IF cash > 0 THEN Deficits ELSE {}
      /\ UNCHANGED <<day, holdings, cash, turn_amt, pv, cands, target, market,
                     open_recs, streaks>>
  BY DEF StartSweep
<1>2. UNCHANGED <<susp, lim>>
  BY <1>1 DEF market
<1>3. \A p \in holdings : p \in Pos /\ p.value \in Nat /\ p.a \in Asset
  BY DEF MInv, TypeOK, Pos
<1>4. target \in Nat /\ Bought(target) \in Nat /\ Bought(target) <= target
  BY PurchaseCost DEF MInv, TypeOK
<1>5. \A d \in defs' : \E p \in holdings :
        Tradeable(p) /\ p.value < target /\ d = [a |-> p.a, def |-> target - p.value]
  BY <1>1 DEF Deficits, Tradeable
<1>6. defs' \subseteq Deficit
  BY <1>3, <1>4, <1>5 DEF Deficit
<1>7. TypeOK'
  BY <1>1, <1>6 DEF MInv, TypeOK, streaks, market
<1>8. Conserved' /\ BoughtOut'
  BY <1>1 DEF MInv, Conserved, BoughtOut
<1>9. Lacking'
  BY <1>1, <1>2, <1>5 DEF Lacking, Tradeable
<1>10. Swept'
  <2> SUFFICES ASSUME cash > 0, NEW p \in holdings, Tradeable(p)
               PROVE  \/ [a |-> p.a, def |-> target - p.value] \in defs'
                      \/ p.value + (target - Bought(target)) >= target
    BY <1>1, <1>2 DEF Swept, Tradeable
  <2>1. CASE p.value < target
    BY <1>1, <2>1 DEF Deficits, Tradeable
  <2>2. CASE p.value >= target
    BY <1>3, <1>4, <2>2
  <2> QED
    BY <1>3, <1>4, <2>1, <2>2
<1> QED
  BY <1>7, <1>8, <1>9, <1>10 DEF MInv

(* A top-up moves cash into one position, at a cost; if cash is left, the  *)
(* position has got all it lacked.                                         *)
LEMMA TopUpMoney ==
  ASSUME IInv, MInv, NEW d \in defs, TopUp(d)
  PROVE  MInv'
<1> DEFINE m == Least(d.def, cash)
           w == cash + MarketValue(holdings)
           l == m - Bought(m)
<1>1. /\ phase = "sweep" /\ cash > 0 /\ defs' = defs \ {d}
      /\ holdings' = {IF p.a = d.a THEN [p EXCEPT !.value = @ + Bought(m)] ELSE p :
                        p \in holdings}
      /\ cash' = cash - m /\ turn_amt' = turn_amt + m
      /\ UNCHANGED <<day, phase, pv, cands, buy, target, market, open_recs, streaks>>
  BY DEF TopUp, Added
<1>2. UNCHANGED <<susp, lim>>
  BY <1>1 DEF market
<1>3. PICK p \in holdings :
        Tradeable(p) /\ p.a = d.a /\ p.value < target /\ d.def = target - p.value
  BY <1>1 DEF MInv, Lacking
<1>4. /\ p \in Pos /\ p.value \in Nat /\ cash \in Nat /\ target \in Nat
      /\ turn_amt \in Nat /\ pv \in Nat /\ d \in Deficit
  BY DEF MInv, TypeOK, Pos
<1>5. /\ d.def \in Nat /\ m \in Nat /\ m <= cash /\ m <= d.def
      /\ m = d.def \/ m = cash
  BY <1>4 DEF Deficit, Least
<1> HIDE DEF m
<1>6. /\ Bought(m) \in Nat /\ Bought(m) <= m /\ l * Base <= m * Cost
  BY <1>5, PurchaseCost
<1> DEFINE new == [p EXCEPT !.value = @ + Bought(m)]
<1>7. new \in Pos /\ new.a = p.a /\ new.value = p.value + Bought(m)
  BY <1>4, <1>6 DEF Pos
<1>8. holdings' = (holdings \ {p}) \cup {new}
  <2>1. \A q \in holdings : q.a = d.a <=> q = p
    BY <1>3 DEF IInv, OnePosition
  <2> QED
    BY <1>1, <2>1
<1> HIDE DEF new
<1>9. new \notin holdings \ {p}
  BY <1>7 DEF IInv, OnePosition
<1>10. TypeOK'
  <2>1. holdings' \subseteq Pos
    BY <1>7, <1>8 DEF MInv, TypeOK
  <2>2. cash' \in Nat /\ turn_amt' \in Nat
    BY <1>1, <1>4, <1>5
  <2> QED
    BY <1>1, <2>1, <2>2 DEF MInv, TypeOK, streaks, market
<1>11. Conserved'
  <2>1. Valued(holdings \ {p}) /\ MarketValue(holdings \ {p}) \in Nat
    <3>1. Valued(holdings \ {p})
      BY Book, FS_Subset DEF Valued, MInv
    <3> QED
      BY <3>1, MarketValueType
  <2>2. MarketValue(holdings) = p.value + MarketValue(holdings \ {p})
    BY Book, MarketValueWithout DEF MInv
  <2>3. MarketValue(holdings') = MarketValue(holdings \ {p}) + new.value
    BY <1>4, <1>6, <1>7, <1>8, <1>9, <2>1, MarketValueWith
  <2>4. w \in Nat /\ l \in Nat /\ l <= w /\ cash' + MarketValue(holdings') = w - l
    BY <1>1, <1>4, <1>5, <1>6, <1>7, <2>1, <2>2, <2>3
  <2>5. w <= pv /\ (pv - w) * Base <= turn_amt * Cost
    BY <1>1 DEF MInv, Conserved, Cost
  <2>6. w - l <= pv /\ (pv - (w - l)) * Base <= (turn_amt + m) * Cost
    <3>1. l * Base <= m * Cost
      BY <1>6
    <3> HIDE DEF w, l
    <3> QED
      BY <1>4, <1>5, <2>4, <2>5, <3>1, Trade
  <2> HIDE DEF w, l
  <2> QED
    BY <1>1, <2>4, <2>6 DEF Conserved, Cost
<1>12. BoughtOut'
  BY <1>1 DEF MInv, BoughtOut
<1>13. Lacking'
  <2> SUFFICES ASSUME NEW e \in defs'
               PROVE  \E q \in holdings' : /\ Tradeable(q) /\ q.a = e.a
                                           /\ q.value < target /\ e.def = target - q.value
    BY <1>1, <1>2 DEF Lacking, Tradeable
  <2>1. e \in defs /\ e # d
    BY <1>1
  <2>2. PICK q \in holdings :
          Tradeable(q) /\ q.a = e.a /\ q.value < target /\ e.def = target - q.value
    BY <1>1, <2>1 DEF MInv, Lacking
  <2>3. q # p
    <3>1. ASSUME q = p PROVE FALSE
      <4>1. e.a = d.a /\ e.def = d.def
        BY <1>3, <2>2, <3>1
      <4>2. e \in Deficit /\ d \in Deficit
        BY <2>1 DEF MInv, TypeOK
      <4> QED
        BY <2>1, <4>1, <4>2 DEF Deficit
    <3> QED
      BY <3>1
  <2> QED
    BY <1>8, <2>2, <2>3
<1>14. Swept'
  <2> SUFFICES ASSUME cash' > 0, NEW q \in holdings', Tradeable(q)
               PROVE  \/ [a |-> q.a, def |-> target - q.value] \in defs'
                      \/ q.value + (target - Bought(target)) >= target
    BY <1>1, <1>2 DEF Swept, Tradeable
  <2>1. CASE q = new
    <3>1. m = d.def
      BY <1>1, <1>4, <1>5
    <3>2. m - Bought(m) <= target - Bought(target)
      BY <1>3, <1>4, <1>5, <3>1, PurchaseCostMonotone
    <3>3. Bought(target) \in Nat
      BY <1>4, PurchaseCost
    <3> QED
      BY <1>3, <1>4, <1>6, <1>7, <2>1, <3>1, <3>2, <3>3
  <2>2. CASE q \in holdings \ {p}
    <3>1. \/ [a |-> q.a, def |-> target - q.value] \in defs
          \/ q.value + (target - Bought(target)) >= target
      BY <1>1, <2>2 DEF MInv, Swept
    <3>2. [a |-> q.a, def |-> target - q.value] # d
      <4>1. q.a # p.a
        BY <2>2 DEF IInv, OnePosition
      <4> QED
        BY <1>3, <4>1
    <3> QED
      BY <1>1, <3>1, <3>2
  <2> QED
    BY <1>8, <2>1, <2>2
<1> QED
  BY <1>10, <1>11, <1>12, <1>13, <1>14 DEF MInv

(* The close moves no money. *)
LEMMA CloseDayMoney ==
  ASSUME IInv, MInv, CloseDay, IInv'
  PROVE  MInv'
<1>1. /\ phase = "sweep" /\ phase' = "closed" /\ defs' = {} /\ cands' = <<>>
      /\ target' = 0
      /\ UNCHANGED <<day, holdings, cash, turn_amt, pv, buy, market, open_recs>>
  BY DEF CloseDay
<1>2. buy' = {}
  BY <1>1 DEF MInv, BoughtOut
<1>3. hold_streak' \in [Asset -> Nat] /\ hold_last_seen' \in [Asset -> Int]
  BY DEF IInv, Shape
<1>4. TypeOK'
  BY <1>1, <1>2, <1>3 DEF MInv, TypeOK, market
<1>5. Conserved' /\ BoughtOut' /\ Lacking' /\ Swept'
  BY <1>1, <1>2 DEF Conserved, BoughtOut, Lacking, Swept
<1> QED
  BY <1>4, <1>5 DEF MInv

-----------------------------------------------------------------------------
(***************************************************************************)
(* The account is inductive beside the invariant of the book.              *)
(***************************************************************************)
THEOREM MoneyInvariance == Spec => []MInv
<1>1. Init => MInv
  BY MoneyInitially
<1>2. IInv /\ IInv' /\ MInv /\ [Next]_vars => MInv'
  <2> SUFFICES ASSUME IInv, IInv', MInv, [Next]_vars PROVE MInv'
    OBVIOUS
  <2>1. CASE \E s, l, d, falls \in SUBSET Asset : OpenDay(s, l, d, falls)
    BY <2>1, OpenDayMoney
  <2>2. CASE \E p \in holdings : DelistSell(p)
    BY <2>2, SaleMoney DEF DelistSell
  <2>3. CASE \E p \in holdings : Sell(p)
    BY <2>3, SaleMoney DEF Sell
  <2>4. CASE Mark
    BY <2>4, MarkMoney
  <2>5. CASE \E r \in Rankings : Decide(r)
    BY <2>5, DecideMoney
  <2>6. CASE SetTarget
    BY <2>6, SetTargetMoney
  <2>7. CASE StartSweep
    BY <2>7, StartSweepMoney
  <2>8. CASE \E k \in buy : BuyNext(k)
    BY <2>8, BuyNextMoney
  <2>9. CASE \E d \in defs : TopUp(d)
    BY <2>9, TopUpMoney
  <2>10. CASE CloseDay
    BY <2>10, CloseDayMoney
  <2>11. CASE UNCHANGED vars
    BY <2>11 DEF vars, market, MInv, TypeOK, Conserved, BoughtOut, Lacking, Swept, Tradeable
  <2> QED
    BY <2>1, <2>2, <2>3, <2>4, <2>5, <2>6, <2>7, <2>8, <2>9, <2>10, <2>11 DEF Next
<1> QED
  BY <1>1, <1>2, Invariance, PTL DEF Spec

(***************************************************************************)
(* Every quantity keeps its type; in particular cash never goes below      *)
(* zero, whatever is bought and topped up.                                 *)
(***************************************************************************)
THEOREM TypeCorrect == Spec => []TypeOK
<1>1. MInv => TypeOK
  BY DEF MInv
<1> QED
  BY <1>1, MoneyInvariance, PTL

(***************************************************************************)
(* From the mark on, cash and positions are worth the portfolio value less *)
(* at most the cost of the turnover, for any number of trades of any size. *)
(***************************************************************************)
THEOREM MoneyConserved == Spec => []Conserved
<1>1. MInv => Conserved
  BY DEF MInv
<1> QED
  BY <1>1, MoneyInvariance, PTL

(***************************************************************************)
(* If the sweep leaves cash, every tradeable position has its target, but  *)
(* for the cost of a purchase.                                             *)
(***************************************************************************)
THEOREM AllInvested == Spec => []Invested
<1>1. MInv => Invested
  BY DEF MInv, Swept, Invested, Tradeable
<1> QED
  BY <1>1, MoneyInvariance, PTL

=============================================================================
