---------------------------- MODULE RewardsProofs ----------------------------
(***************************************************************************)
(* The vault can pay what it owes, an exit is never worth more than its    *)
(* shares, no call lowers the price of a share, and the drip contract      *)
(* never owes more than it holds: for any stakers, amounts, rates and      *)
(* intervals.                                                              *)
(***************************************************************************)
EXTENDS DripWCHANRewards, FiniteSetTheorems, WellFoundedInduction, TLAPS

-----------------------------------------------------------------------------
(* Induction over the natural numbers, from the least-number principle.      *)

Below == {p \in Nat \X Nat : p[1] < p[2]}

\* The order of the natural numbers is well founded.
LEMMA BelowIsWellFounded == IsWellFoundedOn(Below, Nat)
<1>1. Below = OpToRel(<, Nat)
  BY DEF Below, OpToRel
<1> QED
  BY <1>1, NatLessThanWellFounded

\* A set of naturals with 0 and every successor has all of them.
LEMMA NatSetInduction ==
  ASSUME NEW S \in SUBSET Nat, 0 \in S, \A n \in S : n + 1 \in S
  PROVE  S = Nat
<1> SUFFICES ASSUME Nat \ S # {} PROVE FALSE
  OBVIOUS
<1>1. PICK n \in Nat \ S : \A m \in Nat \ S : ~ (<<m, n>> \in Below)
  BY BelowIsWellFounded, WFMin
<1>2. n # 0 /\ n - 1 \in Nat /\ n = (n - 1) + 1
  OBVIOUS
<1>3. <<n - 1, n>> \in Nat \X Nat /\ <<n - 1, n>>[1] = n - 1 /\ <<n - 1, n>>[2] = n
  BY <1>2
<1>4. n - 1 \in S
  BY <1>1, <1>2, <1>3 DEF Below
<1> QED
  BY <1>2, <1>4

-----------------------------------------------------------------------------
(* Sums over the accounts.                                                   *)

\* The element a fold takes next.
First(s) == CHOOSE a \in s : TRUE
\* What a sum of f over s adds to the sum over the rest.
Added(f, g, s) == IF s = {} THEN 0 ELSE f[First(s)] + g[s \ {First(s)}]
\* g holds the sums of f over all sets of accounts.
Adds(g, f) ==
  g \in [SUBSET Accounts -> Int] /\ \A s \in SUBSET Accounts : g[s] = Added(f, g, s)

\* Taking one account out of a set leaves a smaller one.
LEMMA SubsetsAreFinite ==
  ASSUME NEW s \in SUBSET Accounts
  PROVE  /\ Cardinality(s) \in Nat
         /\ Cardinality(s) = 0 => s = {}
         /\ s # {} => /\ First(s) \in s /\ s \ {First(s)} \in SUBSET Accounts
                      /\ Cardinality(s \ {First(s)}) = Cardinality(s) - 1
<1>1. IsFiniteSet(Accounts)
  BY VaultAssumption, FS_AddElement DEF Accounts
<1>2. IsFiniteSet(s)
  BY <1>1, FS_Subset
<1>3. s # {} => First(s) \in s
  BY DEF First
<1> QED
  BY <1>2, <1>3, FS_CardinalityType, FS_EmptySet, FS_RemoveElement

\* Only the empty set has no members.
LEMMA NoAccounts ==
  ASSUME NEW s \in SUBSET Accounts
  PROVE  Cardinality(s) \in Nat /\ (Cardinality(s) <= 0 => s = {})
<1>1. Cardinality(s) \in Nat /\ (Cardinality(s) = 0 => s = {})
  BY SubsetsAreFinite
<1> QED
  BY <1>1

\* A statement about sets of accounts holds of all of them when it holds of the empty one
\* and is passed on by one account.
LEMMA AccountInduction ==
  ASSUME NEW P \in [SUBSET Accounts -> BOOLEAN], P[{}],
         \A s \in SUBSET Accounts : s # {} /\ P[s \ {First(s)}] => P[s]
  PROVE  \A s \in SUBSET Accounts : P[s]
<1> DEFINE Holds(n) == \A s \in SUBSET Accounts : Cardinality(s) = n => P[s]
           Held == {n \in Nat : Holds(n)}
<1>1. Holds(0)
  BY SubsetsAreFinite
<1>2. ASSUME NEW n \in Nat, Holds(n) PROVE Holds(n + 1)
  <2> SUFFICES ASSUME NEW s \in SUBSET Accounts, Cardinality(s) = n + 1 PROVE P[s]
    OBVIOUS
  <2>1. CASE s = {}
    BY <2>1
  <2>2. CASE s # {}
    <3>1. s \ {First(s)} \in SUBSET Accounts /\ Cardinality(s \ {First(s)}) = n
      BY <2>2, SubsetsAreFinite
    <3> QED
      BY <1>2, <2>2, <3>1
  <2> QED
    BY <2>1, <2>2
<1>3. Held = Nat
  <2> HIDE DEF Holds
  <2>1. Held \in SUBSET Nat /\ 0 \in Held /\ \A n \in Held : n + 1 \in Held
    BY <1>1, <1>2
  <2> QED
    BY <2>1, NatSetInduction
<1> QED
  BY <1>3, SubsetsAreFinite

\* Sums of integers are integers.
LEMMA AddedIsInteger ==
  ASSUME NEW f \in [Accounts -> Int], NEW g \in [SUBSET Accounts -> Int],
         NEW s \in SUBSET Accounts
  PROVE  Added(f, g, s) \in Int
<1>1. CASE s = {}
  BY <1>1 DEF Added
<1>2. CASE s # {}
  <2>1. First(s) \in Accounts /\ s \ {First(s)} \in SUBSET Accounts
    BY <1>2, SubsetsAreFinite
  <2>2. f[First(s)] \in Int /\ g[s \ {First(s)}] \in Int
    BY <2>1
  <2> QED
    BY <1>2, <2>2 DEF Added
<1> QED
  BY <1>1, <1>2

\* Every function on the accounts can be summed.
LEMMA SumsExist ==
  ASSUME NEW f \in [Accounts -> Int] PROVE \E g : Adds(g, f)
<1> DEFINE Sums(g, n) == \A s \in SUBSET Accounts : Cardinality(s) <= n => g[s] = Added(f, g, s)
           Solved(n) == \E g \in [SUBSET Accounts -> Int] : Sums(g, n)
           Defined == {n \in Nat : Solved(n)}
<1>1. Solved(0)
  <2> DEFINE g == [s \in SUBSET Accounts |-> 0]
  <2>1. ASSUME NEW s \in SUBSET Accounts, Cardinality(s) <= 0 PROVE g[s] = Added(f, g, s)
    <3>1. s = {}
      BY <2>1, NoAccounts
    <3> QED
      BY <3>1 DEF Added
  <2>2. g \in [SUBSET Accounts -> Int]
    OBVIOUS
  <2> HIDE DEF g
  <2> QED
    BY <2>1, <2>2
<1>2. ASSUME NEW n \in Nat, Solved(n) PROVE Solved(n + 1)
  <2>1. PICK g \in [SUBSET Accounts -> Int] : Sums(g, n)
    BY <1>2
  <2> DEFINE h == [s \in SUBSET Accounts |->
                     IF Cardinality(s) = n + 1 THEN Added(f, g, s) ELSE g[s]]
  <2>2. ASSUME NEW s \in SUBSET Accounts PROVE Added(f, g, s) \in Int
    BY AddedIsInteger
  <2>3. h \in [SUBSET Accounts -> Int]
    BY <2>2
  <2>4. ASSUME NEW s \in SUBSET Accounts, Cardinality(s) <= n + 1 PROVE h[s] = Added(f, h, s)
    <3>1. Added(f, h, s) = Added(f, g, s)
      <4>1. CASE s = {}
        BY <4>1 DEF Added
      <4>2. CASE s # {}
        <5>1. /\ s \ {First(s)} \in SUBSET Accounts
              /\ Cardinality(s \ {First(s)}) # n + 1
          BY <2>4, <4>2, SubsetsAreFinite
        <5> DEFINE r == s \ {First(s)}
        <5>2. h[r] = g[r]
          BY <5>1
        <5> HIDE DEF h
        <5> QED
          BY <4>2, <5>2 DEF Added
      <4> QED
        BY <4>1, <4>2
    <3>2. CASE Cardinality(s) = n + 1
      BY <3>1, <3>2
    <3>3. CASE Cardinality(s) # n + 1
      <4>1. Cardinality(s) \in Nat
        BY NoAccounts
      <4>2. Cardinality(s) <= n
        BY <2>4, <3>3, <4>1
      <4> QED
        BY <2>1, <3>1, <3>3, <4>2
    <3> QED
      BY <3>2, <3>3
  <2> HIDE DEF h
  <2> QED
    BY <2>3, <2>4
<1>3. Defined = Nat
  <2> HIDE DEF Solved
  <2>1. Defined \in SUBSET Nat /\ 0 \in Defined /\ \A n \in Defined : n + 1 \in Defined
    BY <1>1, <1>2
  <2> QED
    BY <2>1, NatSetInduction
<1>4. IsFiniteSet(Accounts) /\ Cardinality(Accounts) \in Nat
  BY VaultAssumption, FS_AddElement, FS_CardinalityType DEF Accounts
<1>5. PICK g \in [SUBSET Accounts -> Int] : Sums(g, Cardinality(Accounts))
  BY <1>3, <1>4
<1>6. \A s \in SUBSET Accounts : Cardinality(s) <= Cardinality(Accounts)
  BY <1>4, FS_Subset
<1>7. Adds(g, f)
  BY <1>5, <1>6 DEF Adds
<1> QED
  BY <1>7

\* The empty sum.
LEMMA SumOfNothing ==
  ASSUME NEW f, NEW g, Adds(g, f) PROVE g[{}] = 0
<1>1. {} \in SUBSET Accounts
  OBVIOUS
<1> QED
  BY <1>1 DEF Adds, Added

Total(f) == (CHOOSE g : Adds(g, f))[Accounts]

\* The total is one of the sums, and an integer.
LEMMA TotalOf ==
  ASSUME NEW f \in [Accounts -> Int]
  PROVE  \E g : Adds(g, f) /\ Total(f) = g[Accounts] /\ Total(f) \in Int
<1> DEFINE g == CHOOSE g : Adds(g, f)
<1>1. Adds(g, f)
  BY SumsExist
<1>2. g[Accounts] \in Int
  BY <1>1 DEF Adds
<1> QED
  BY <1>1, <1>2 DEF Total

\* Sums are monotone, and additive in a multiple of another sum.
LEMMA TotalIsMonotone ==
  ASSUME NEW f \in [Accounts -> Int], NEW g \in [Accounts -> Int], NEW h \in [Accounts -> Int],
         NEW c \in Int, \A a \in Accounts : f[a] <= g[a] + c * h[a]
  PROVE  Total(f) <= Total(g) + c * Total(h)
<1>1. PICK F : Adds(F, f) /\ Total(f) = F[Accounts]
  BY TotalOf
<1>2. PICK G : Adds(G, g) /\ Total(g) = G[Accounts]
  BY TotalOf
<1>3. PICK H : Adds(H, h) /\ Total(h) = H[Accounts]
  BY TotalOf
<1> DEFINE P == [s \in SUBSET Accounts |-> F[s] <= G[s] + c * H[s]]
<1>4. P \in [SUBSET Accounts -> BOOLEAN]
  OBVIOUS
<1>5. P[{}]
  <2>1. F[{}] = 0 /\ G[{}] = 0 /\ H[{}] = 0
    BY <1>1, <1>2, <1>3, SumOfNothing
  <2>2. {} \in SUBSET Accounts
    OBVIOUS
  <2>3. P[{}] = (F[{}] <= G[{}] + c * H[{}])
    BY <2>2
  <2>4. 0 <= 0 + c * 0
    OBVIOUS
  <2> QED
    BY <2>1, <2>3, <2>4
<1>6. ASSUME NEW s \in SUBSET Accounts, s # {}, P[s \ {First(s)}] PROVE P[s]
  <2> DEFINE a == First(s)
             r == s \ {a}
  <2>1. a \in Accounts /\ r \in SUBSET Accounts
    BY <1>6, SubsetsAreFinite
  <2>2. F[s] = f[a] + F[r] /\ G[s] = g[a] + G[r] /\ H[s] = h[a] + H[r]
    BY <1>1, <1>2, <1>3, <1>6 DEF Adds, Added
  <2>3. F[r] \in Int /\ G[r] \in Int /\ H[r] \in Int
    BY <1>1, <1>2, <1>3, <2>1 DEF Adds
  <2>4. f[a] \in Int /\ g[a] \in Int /\ h[a] \in Int
    BY <2>1
  <2>5. F[r] <= G[r] + c * H[r] /\ f[a] <= g[a] + c * h[a]
    BY <1>6, <2>1
  <2> HIDE DEF a, r
  <2>6. c * (h[a] + H[r]) = c * h[a] + c * H[r] /\ c * h[a] \in Int /\ c * H[r] \in Int
    BY <2>3, <2>4
  <2>7. f[a] + F[r] <= g[a] + G[r] + c * (h[a] + H[r])
    BY <2>3, <2>4, <2>5, <2>6
  <2> QED
    BY <2>2, <2>7
<1>7. P[Accounts]
  <2> HIDE DEF P
  <2> QED
    BY <1>4, <1>5, <1>6, AccountInduction
<1> QED
  BY <1>1, <1>2, <1>3, <1>7

\* A function that is zero but for one account.
Point(a, v) == [b \in Accounts |-> IF b = a THEN v ELSE 0]

\* A point adds up to its value.
LEMMA TotalOfPoint ==
  ASSUME NEW a \in Accounts, NEW v \in Int
  PROVE  Point(a, v) \in [Accounts -> Int] /\ Total(Point(a, v)) = v
<1>1. Point(a, v) \in [Accounts -> Int]
  BY DEF Point
<1>2. PICK F : Adds(F, Point(a, v)) /\ Total(Point(a, v)) = F[Accounts]
  BY <1>1, TotalOf
<1> DEFINE P == [s \in SUBSET Accounts |-> F[s] = IF a \in s THEN v ELSE 0]
<1>3. P \in [SUBSET Accounts -> BOOLEAN]
  OBVIOUS
<1>4. P[{}]
  <2>1. F[{}] = 0 /\ {} \in SUBSET Accounts
    BY <1>2, SumOfNothing
  <2> QED
    BY <2>1
<1>5. ASSUME NEW s \in SUBSET Accounts, s # {}, P[s \ {First(s)}] PROVE P[s]
  <2>1. First(s) \in s /\ s \ {First(s)} \in SUBSET Accounts
    BY <1>5, SubsetsAreFinite
  <2>2. F[s] = Point(a, v)[First(s)] + F[s \ {First(s)}]
    BY <1>2, <1>5 DEF Adds, Added
  <2>3. CASE First(s) = a
    <3>1. F[s \ {First(s)}] = 0
      BY <1>5, <2>1, <2>3
    <3>2. Point(a, v)[First(s)] = v
      BY <2>3 DEF Point
    <3>3. F[s] = v /\ a \in s
      BY <2>1, <2>2, <2>3, <3>1, <3>2
    <3> QED
      BY <3>3
  <2>4. CASE First(s) # a
    <3>1. F[s \ {First(s)}] = IF a \in s THEN v ELSE 0
      BY <1>5, <2>1, <2>4
    <3>2. Point(a, v)[First(s)] = 0
      BY <2>1, <2>4 DEF Point
    <3>3. F[s] = F[s \ {First(s)}] /\ F[s \ {First(s)}] \in Int
      BY <2>1, <2>2, <3>2, <1>2 DEF Adds
    <3>4. F[s] = IF a \in s THEN v ELSE 0
      BY <3>1, <3>3
    <3> QED
      BY <3>4
  <2> QED
    BY <2>3, <2>4
<1>6. P[Accounts]
  <2> HIDE DEF P
  <2> QED
    BY <1>3, <1>4, <1>5, AccountInduction
<1> QED
  BY <1>1, <1>2, <1>6

\* Two functions that add up the same thing agree.
LEMMA SumsAgree ==
  ASSUME NEW f, NEW g, NEW h, \A s \in SUBSET Accounts : g[s] = Added(f, g, s),
         \A s \in SUBSET Accounts : h[s] = Added(f, h, s)
  PROVE  \A s \in SUBSET Accounts : g[s] = h[s]
<1> DEFINE P == [s \in SUBSET Accounts |-> g[s] = h[s]]
<1>1. P \in [SUBSET Accounts -> BOOLEAN]
  OBVIOUS
<1>2. P[{}]
  <2>1. {} \in SUBSET Accounts
    OBVIOUS
  <2>2. g[{}] = 0 /\ h[{}] = 0
    BY <2>1 DEF Added
  <2> QED
    BY <2>1, <2>2
<1>3. ASSUME NEW s \in SUBSET Accounts, s # {}, P[s \ {First(s)}] PROVE P[s]
  <2>1. s \ {First(s)} \in SUBSET Accounts
    BY <1>3, SubsetsAreFinite
  <2>2. g[s] = Added(f, g, s) /\ h[s] = Added(f, h, s)
    OBVIOUS
  <2>3. Added(f, g, s) = Added(f, h, s)
    BY <1>3, <2>1 DEF Added
  <2> QED
    BY <2>2, <2>3
<1>4. \A s \in SUBSET Accounts : P[s]
  <2> HIDE DEF P
  <2> QED
    BY <1>1, <1>2, <1>3, AccountInduction
<1> QED
  BY <1>4

\* The sum of the model is the sum of this module.
LEMMA SumOfEarned ==
  ASSUME \A a \in Accounts : Earned(a) \in Int
  PROVE  MapThenSumSet(Earned, Accounts) = Total([a \in Accounts |-> Earned(a)])
<1> DEFINE f == [a \in Accounts |-> Earned(a)]
           Step(g) == [s \in SUBSET Accounts |->
              IF s = {} THEN 0
              ELSE Earned(CHOOSE x \in s : TRUE) + g[s \ {CHOOSE x \in s : TRUE}]]
           iter == CHOOSE g : g = Step(g)
<1>1. MapThenSumSet(Earned, Accounts) = iter[Accounts]
  BY DEF MapThenSumSet, MapThenFoldSet
<1>2. f \in [Accounts -> Int]
  OBVIOUS
<1>3. PICK G : Adds(G, f) /\ Total(f) = G[Accounts]
  BY <1>2, TotalOf
<1>4. ASSUME NEW g, NEW s \in SUBSET Accounts PROVE Step(g)[s] = Added(f, g, s)
  <2>1. CASE s = {}
    BY <2>1 DEF Added
  <2>2. CASE s # {}
    <3>1. First(s) \in Accounts
      BY <2>2, SubsetsAreFinite
    <3> QED
      BY <2>2, <3>1 DEF Added, First
  <2> QED
    BY <2>1, <2>2
<1>5. G = Step(G)
  <2>1. G = [s \in SUBSET Accounts |-> G[s]]
    BY <1>3 DEF Adds
  <2>2. Step(G) = [s \in SUBSET Accounts |-> Step(G)[s]]
    OBVIOUS
  <2>3. \A s \in SUBSET Accounts : G[s] = Step(G)[s]
    BY <1>3, <1>4 DEF Adds
  <2> HIDE DEF Step
  <2> QED
    BY <2>1, <2>2, <2>3
<1>6. iter = Step(iter)
  <2> HIDE DEF Step
  <2> QED
    BY <1>5
<1>7. \A s \in SUBSET Accounts : iter[s] = G[s]
  <2>1. \A s \in SUBSET Accounts : iter[s] = Added(f, iter, s)
    <3> HIDE DEF iter, Step, f
    <3> QED
      BY <1>4, <1>6
  <2>2. \A s \in SUBSET Accounts : G[s] = Added(f, G, s)
    BY <1>3 DEF Adds
  <2> HIDE DEF iter, f
  <2> QED
    BY <2>1, <2>2, SumsAgree
<1> QED
  <2> HIDE DEF iter, f
  <2> QED
    BY <1>1, <1>3, <1>7 DEF f

-----------------------------------------------------------------------------
(* Products and quotients                                                    *)

\* A proportion of an amount is at most the amount (Math.mulDiv with e <= d).
LEMMA ProportionIsBounded ==
  ASSUME NEW r \in Nat, NEW e \in Nat, NEW d \in Nat, d > 0, e <= d
  PROVE  (r * e) \div d \in 0..r
<1> DEFINE q == (r * e) \div d
<1>1. r * e \in Nat /\ r * d \in Nat
  OBVIOUS
<1>2. q \in Nat /\ d * q <= r * e
  BY <1>1, SMT
<1>3. r * e <= r * d
  BY SMT
<1>4. d * q <= d * r
  BY <1>1, <1>2, <1>3, SMT
<1>5. q <= r
  <2>1. SUFFICES ASSUME q >= r + 1 PROVE FALSE
    BY <1>2
  <2>2. d * q >= d * r + d
    BY <2>1, <1>2, SMT
  <2> QED
    BY <2>2, <1>4, <1>1, <1>2
<1> QED
  BY <1>2, <1>5

\* Products of naturals grow with their factors.
LEMMA Product ==
  ASSUME NEW m \in Nat, NEW n \in Nat, NEW k \in Nat
  PROVE  m * k \in Nat /\ (m <= n => m * k <= n * k) /\ (m < n /\ k > 0 => m * k < n * k)
<1>1. m * k \in Nat
  OBVIOUS
<1>2. ASSUME m <= n PROVE m * k <= n * k
  <2>1. PICK j \in Nat : n = m + j
    <3>1. n - m \in Nat /\ n = m + (n - m)
      BY <1>2
    <3> QED
      BY <3>1
  <2>2. n * k = m * k + j * k /\ j * k \in Nat
    BY <2>1
  <2> QED
    BY <1>1, <2>2
<1>3. ASSUME m < n, k > 0 PROVE m * k < n * k
  <2>1. PICK j \in Nat : n = m + 1 + j
    <3>1. n - m - 1 \in Nat /\ n = m + 1 + (n - m - 1)
      BY <1>3
    <3> QED
      BY <3>1
  <2>2. n * k = m * k + k + j * k /\ j * k \in Nat
    BY <2>1
  <2> QED
    BY <1>1, <1>3, <2>2
<1> QED
  BY <1>1, <1>2, <1>3

\* A factor can be cancelled.
LEMMA Cancelled ==
  ASSUME NEW m \in Nat, NEW n \in Nat, NEW k \in Nat, k > 0
  PROVE  (m * k <= n * k => m <= n) /\ (m * k < n * k => m < n)
<1>1. m * k \in Nat /\ n * k \in Nat
  BY Product
<1>2. n < m => n * k < m * k
  BY Product
<1>3. n <= m => n * k <= m * k
  BY Product
<1> QED
  BY <1>1, <1>2, <1>3

\* The quotient is the greatest number that fits.
LEMMA Floor ==
  ASSUME NEW n \in Nat, NEW d \in Nat, d > 0
  PROVE  /\ n \div d \in Nat
         /\ (n \div d) * d <= n
         /\ n < (n \div d + 1) * d
         /\ \A g \in Nat : g * d <= n => g <= n \div d
<1> DEFINE q == n \div d
<1>1. q \in Nat /\ q * d <= n
  BY SMT
<1>2. n < q * d + d
  BY SMT
<1>3. (q + 1) * d = q * d + d /\ q * d \in Nat
  BY <1>1
<1> HIDE DEF q
<1>4. ASSUME NEW g \in Nat, g * d <= n PROVE g <= q
  <2>1. g * d \in Nat /\ (q + 1) * d \in Nat
    BY <1>1, Product
  <2>2. g * d < (q + 1) * d
    BY <1>1, <1>2, <1>3, <1>4, <2>1
  <2>3. g < q + 1
    BY <1>1, <2>2, Cancelled
  <2> QED
    BY <1>1, <2>3
<1> QED
  BY <1>1, <1>2, <1>3, <1>4 DEF q

\* The quotient rounded up is enough.
LEMMA Ceiling ==
  ASSUME NEW n \in Nat, NEW d \in Nat, d > 0
  PROVE  CeilDiv(n, d) \in Nat /\ n <= CeilDiv(n, d) * d
<1> DEFINE q == (n + d - 1) \div d
<1>1. n + d - 1 \in Nat
  OBVIOUS
<1>2. q \in Nat /\ n + d - 1 < (q + 1) * d
  BY <1>1, Floor
<1>3. (q + 1) * d = q * d + d /\ q * d \in Nat
  BY <1>2
<1> HIDE DEF q
<1>4. n <= q * d
  BY <1>2, <1>3
<1> QED
  BY <1>2, <1>4 DEF CeilDiv, q

-----------------------------------------------------------------------------
(* Sums that change at some accounts                                         *)

\* A sum whose terms did not grow, but for one, grew at most by that one.
LEMMA TotalWithin ==
  ASSUME NEW f \in [Accounts -> Int], NEW g \in [Accounts -> Int], NEW a \in Accounts, NEW v \in Int,
         \A b \in Accounts : f[b] <= IF b = a THEN g[b] + v ELSE g[b]
  PROVE  Total(f) <= Total(g) + v
<1> DEFINE h == Point(a, v)
<1>1. h \in [Accounts -> Int] /\ Total(h) = v
  BY TotalOfPoint
<1>2. \A b \in Accounts : f[b] <= g[b] + 1 * h[b]
  BY DEF Point
<1> HIDE DEF h
<1>3. Total(f) <= Total(g) + 1 * Total(h)
  BY <1>1, <1>2, TotalIsMonotone
<1> QED
  BY <1>1, <1>3

\* A sum of which one term changed.
LEMMA TotalChanged ==
  ASSUME NEW f \in [Accounts -> Int], NEW g \in [Accounts -> Int], NEW a \in Accounts, NEW v \in Int,
         \A b \in Accounts : g[b] = IF b = a THEN f[b] + v ELSE f[b]
  PROVE  Total(g) = Total(f) + v
<1>1. Total(g) <= Total(f) + v
  BY TotalWithin
<1>2. \A b \in Accounts : f[b] <= IF b = a THEN g[b] + (-v) ELSE g[b]
  OBVIOUS
<1>3. -v \in Int
  OBVIOUS
<1>4. Total(f) <= Total(g) + (-v)
  BY <1>2, <1>3, TotalWithin
<1>5. Total(f) \in Int /\ Total(g) \in Int
  BY TotalOf
<1> QED
  BY <1>1, <1>4, <1>5

\* One account has at most what all have.
LEMMA MemberOfTotal ==
  ASSUME NEW f \in [Accounts -> Nat], NEW a \in Accounts
  PROVE  f[a] <= Total(f) /\ Total(f) \in Nat
<1>1. f \in [Accounts -> Int] /\ f[a] \in Nat
  OBVIOUS
<1> DEFINE h == Point(a, f[a])
<1>2. h \in [Accounts -> Int] /\ Total(h) = f[a]
  BY <1>1, TotalOfPoint
<1>3. \A b \in Accounts : h[b] <= f[b] + 0 * f[b]
  BY DEF Point
<1> HIDE DEF h
<1>4. Total(h) <= Total(f) + 0 * Total(f)
  BY <1>1, <1>2, <1>3, TotalIsMonotone
<1>5. Total(f) \in Int
  BY <1>1, TotalOf
<1> QED
  BY <1>1, <1>2, <1>4, <1>5

-----------------------------------------------------------------------------
(* The invariant                                                             *)

\* What an account is owed, in fractions of a token.
Owed == [a \in Accounts |-> shares[a] * (perShare - paid[a]) + SCALE * unclaimed[a]]

StakeOK ==
  /\ assets \in Nat /\ supply \in Nat
  /\ shares \in [Accounts -> Nat]
  /\ Total(shares) = supply
TimeOK ==
  /\ now \in Nat
  /\ depositTime \in [Accounts -> Nat]
  /\ \A a \in Accounts : depositTime[a] <= now
RewardOK ==
  /\ perShare \in Nat /\ weth \in Nat
  /\ paid \in [Accounts -> Nat] /\ unclaimed \in [Accounts -> Nat]
  /\ \A a \in Accounts : paid[a] <= perShare
Covered == Total(Owed) <= SCALE * weth
VaultInv == StakeOK /\ TimeOK /\ RewardOK /\ Covered

\* What an account has earned is what it is owed, rounded down.
LEMMA OwedOf ==
  ASSUME StakeOK, RewardOK
  PROVE  /\ Owed \in [Accounts -> Nat]
         /\ \A a \in Accounts : Earned(a) \in Nat /\ Earned(a) * SCALE <= Owed[a]
<1> SUFFICES ASSUME NEW a \in Accounts
             PROVE  /\ Owed[a] \in Nat /\ Earned(a) \in Nat /\ Earned(a) * SCALE <= Owed[a]
  BY DEF Owed
<1> DEFINE d == perShare - paid[a]
           n == shares[a] * d
           u == unclaimed[a]
<1>1. d \in Nat /\ shares[a] \in Nat /\ u \in Nat /\ SCALE \in Nat /\ SCALE > 0
  BY VaultAssumption DEF StakeOK, RewardOK
<1>2. n \in Nat /\ u * SCALE \in Nat
  BY <1>1, Product
<1>3. Owed[a] = n + SCALE * u /\ Earned(a) = n \div SCALE + u
  BY DEF Owed, Earned
<1> HIDE DEF n, d, u
<1>4. n \div SCALE \in Nat /\ (n \div SCALE) * SCALE <= n
  BY <1>1, <1>2, Floor
<1>5. (n \div SCALE + u) * SCALE = (n \div SCALE) * SCALE + u * SCALE /\ SCALE * u = u * SCALE
  BY <1>1, <1>4
<1>6. (n \div SCALE) * SCALE \in Nat
  BY <1>1, <1>4, Product
<1> QED
  BY <1>1, <1>2, <1>3, <1>4, <1>5, <1>6

\* A snapshot of the accounts whose shares change moves what they are owed to unclaimed,
\* rounded down.
LEMMA SnapshotCovers ==
  ASSUME StakeOK, RewardOK, Covered, NEW changed \in SUBSET Accounts, Snapshot(changed),
         shares' \in [Accounts -> Nat], \A b \in Accounts \ changed : shares'[b] = shares[b]
  PROVE  RewardOK' /\ Covered'
<1>1. /\ Owed \in [Accounts -> Nat]
      /\ \A a \in Accounts : Earned(a) \in Nat /\ Earned(a) * SCALE <= Owed[a]
  BY OwedOf
<1>2. RewardOK'
  BY <1>1 DEF RewardOK, Snapshot
<1>3. Owed' = [a \in Accounts |-> shares'[a] * (perShare - paid'[a]) + SCALE * unclaimed'[a]]
  BY DEF Owed, Snapshot
<1>4. ASSUME NEW a \in Accounts PROVE Owed'[a] \in Nat /\ Owed'[a] <= Owed[a] + 0 * Owed[a]
  <2>0. Owed[a] \in Nat
    BY <1>1
  <2>1. CASE a \in changed
    <3>1. paid'[a] = perShare /\ unclaimed'[a] = Earned(a) /\ perShare - perShare = 0
      BY <2>1 DEF Snapshot, RewardOK
    <3>2. shares'[a] * 0 = 0 /\ Earned(a) \in Nat /\ SCALE \in Nat /\ Earned(a) * SCALE <= Owed[a]
      BY <1>1, VaultAssumption
    <3>3. Owed'[a] = shares'[a] * (perShare - perShare) + SCALE * Earned(a)
      BY <1>3, <3>1
    <3>4. Owed'[a] = Earned(a) * SCALE /\ Earned(a) * SCALE \in Nat
      BY <3>1, <3>2, <3>3
    <3> QED
      BY <2>0, <3>2, <3>4
  <2>2. CASE a \notin changed
    <3>1. paid'[a] = paid[a] /\ unclaimed'[a] = unclaimed[a] /\ shares'[a] = shares[a]
      BY <2>2 DEF Snapshot
    <3>2. Owed'[a] = Owed[a]
      BY <1>3, <3>1 DEF Owed
    <3> QED
      BY <2>0, <3>2
  <2> QED
    BY <2>1, <2>2
<1>5. Owed' \in [Accounts -> Int] /\ Owed \in [Accounts -> Int]
  BY <1>1, <1>3, <1>4
<1>6. Total(Owed') <= Total(Owed) + 0 * Total(Owed)
  BY <1>4, <1>5, TotalIsMonotone
<1>7. Total(Owed') \in Int /\ Total(Owed) \in Int
  BY <1>5, TotalOf
<1>8. weth' = weth /\ SCALE * weth \in Nat
  BY VaultAssumption, Product DEF Snapshot, RewardOK
<1>9. Total(Owed') <= SCALE * weth'
  BY <1>6, <1>7, <1>8 DEF Covered
<1> QED
  BY <1>2, <1>9 DEF Covered

\* A claim takes no more than the account is owed (claimRewards).
LEMMA ClaimCovers ==
  ASSUME StakeOK, RewardOK, Covered, NEW a \in Accounts, ClaimRewards(a)
  PROVE  RewardOK' /\ Covered'
<1> DEFINE e == Earned(a)
<1>1. /\ Owed \in [Accounts -> Nat]
      /\ e \in Nat /\ e * SCALE <= Owed[a]
  BY OwedOf
<1>2. /\ weth' = weth - e /\ unclaimed' = [unclaimed EXCEPT ![a] = 0]
      /\ paid' = [paid EXCEPT ![a] = perShare] /\ shares' = shares /\ perShare' = perShare
  BY DEF ClaimRewards, stakeVars
<1> HIDE DEF e
<1>3. SCALE \in Nat /\ SCALE > 0 /\ weth \in Nat /\ perShare \in Nat
  BY VaultAssumption DEF RewardOK
<1>4. e * SCALE \in Nat /\ weth * SCALE \in Nat /\ SCALE * weth = weth * SCALE
  BY <1>1, <1>3, Product
<1>5. Owed[a] <= Total(Owed) /\ Total(Owed) \in Nat /\ Owed[a] \in Nat
  BY <1>1, MemberOfTotal
<1>6. e * SCALE <= weth * SCALE
  BY <1>1, <1>4, <1>5 DEF Covered
<1>7. e <= weth
  BY <1>1, <1>3, <1>6, Cancelled
<1>8. RewardOK'
  BY <1>1, <1>2, <1>3, <1>7 DEF RewardOK
<1>9. Owed' = [b \in Accounts |-> shares[b] * (perShare - paid'[b]) + SCALE * unclaimed'[b]]
  BY <1>2 DEF Owed
<1>10. ASSUME NEW b \in Accounts
       PROVE  Owed'[b] \in Int /\ Owed'[b] <= IF b = a THEN Owed[b] + (-(e * SCALE)) ELSE Owed[b]
  <2>1. CASE b = a
    <3>1. Owed'[b] = shares[a] * (perShare - perShare) + SCALE * 0
      BY <1>2, <1>9, <2>1 DEF RewardOK
    <3>2. perShare - perShare = 0 /\ shares[a] * 0 = 0 /\ SCALE * 0 = 0
      BY <1>3 DEF StakeOK
    <3>3. Owed'[b] = 0
      BY <3>1, <3>2
    <3> QED
      BY <1>1, <1>4, <1>5, <2>1, <3>3
  <2>2. CASE b # a
    <3>1. Owed'[b] = Owed[b]
      BY <1>2, <1>9, <2>2 DEF RewardOK, Owed
    <3> QED
      BY <1>1, <2>2, <3>1
  <2> QED
    BY <2>1, <2>2
<1>11. Owed' \in [Accounts -> Int] /\ Owed \in [Accounts -> Int] /\ -(e * SCALE) \in Int
  BY <1>1, <1>4, <1>9, <1>10
<1>12. Total(Owed') <= Total(Owed) + (-(e * SCALE))
  BY <1>10, <1>11, TotalWithin
<1>13. SCALE * (weth - e) = weth * SCALE - e * SCALE
  BY <1>1, <1>3
<1>14. Total(Owed') \in Int
  BY <1>11, TotalOf
<1>15. Total(Owed') <= SCALE * weth'
  BY <1>2, <1>4, <1>5, <1>12, <1>13, <1>14 DEF Covered
<1> QED
  BY <1>8, <1>15 DEF Covered

\* A donation is rounded down (donateReward).
LEMMA GainIsCovered ==
  ASSUME StakeOK, NEW x \in Nat, supply > 0
  PROVE  Gain(x) \in Nat /\ Gain(x) * supply <= x * SCALE
<1>1. SCALE \in Nat /\ supply \in Nat
  BY VaultAssumption DEF StakeOK
<1>2. x * SCALE \in Nat
  BY <1>1, Product
<1> QED
  BY <1>1, <1>2, Floor DEF Gain

\* Two that are paid together gain no more than one of their sum.
LEMMA GainsAreCovered ==
  ASSUME StakeOK, NEW x \in Nat, NEW y \in Nat, supply > 0
  PROVE  /\ Gain(x) + Gain(y) \in Nat
         /\ (Gain(x) + Gain(y)) * supply <= (x + y) * SCALE
<1>1. /\ Gain(x) \in Nat /\ Gain(x) * supply <= x * SCALE
      /\ Gain(y) \in Nat /\ Gain(y) * supply <= y * SCALE
  BY GainIsCovered
<1>2. SCALE \in Nat /\ supply \in Nat
  BY VaultAssumption DEF StakeOK
<1> HIDE DEF Gain
<1>3. /\ Gain(x) * supply \in Nat /\ Gain(y) * supply \in Nat
      /\ x * SCALE \in Nat /\ y * SCALE \in Nat
  BY <1>1, <1>2, Product
<1>4. /\ (Gain(x) + Gain(y)) * supply = Gain(x) * supply + Gain(y) * supply
      /\ (x + y) * SCALE = x * SCALE + y * SCALE
  <2>1. \A m, n, k \in Nat : (m + n) * k = m * k + n * k
    OBVIOUS
  <2> QED
    BY <1>1, <1>2, <2>1
<1> QED
  BY <1>1, <1>3, <1>4

\* A donation adds to perShare at most what it adds to the balance (donateReward).
LEMMA DonationCovers ==
  ASSUME StakeOK, RewardOK, Covered, NEW x \in Nat, NEW d \in Nat, d * supply <= x * SCALE,
         weth' = weth + x, perShare' = perShare + d, UNCHANGED <<paid, unclaimed, shares>>
  PROVE  RewardOK' /\ Covered'
<1>1. /\ weth' = weth + x /\ perShare' = perShare + d
      /\ paid' = paid /\ unclaimed' = unclaimed
  OBVIOUS
<1>2. SCALE \in Nat /\ weth \in Nat /\ perShare \in Nat /\ supply \in Nat
  BY VaultAssumption DEF RewardOK, StakeOK
<1>3. x * SCALE \in Nat /\ weth * SCALE \in Nat
  BY <1>2, Product
<1>4. d \in Nat /\ d * supply <= x * SCALE
  OBVIOUS
<1>5. RewardOK'
  BY <1>1, <1>2, <1>4 DEF RewardOK
<1>6. Owed \in [Accounts -> Nat]
  BY OwedOf
<1>7. Owed' = [b \in Accounts |-> shares'[b] * (perShare' - paid'[b]) + SCALE * unclaimed'[b]]
  BY DEF Owed
<1>8. ASSUME NEW b \in Accounts PROVE Owed'[b] \in Int /\ Owed'[b] <= Owed[b] + d * shares[b]
  <2>1. /\ shares[b] \in Nat /\ paid[b] \in Nat /\ unclaimed[b] \in Nat
        /\ perShare - paid[b] \in Int
    BY <1>2 DEF StakeOK, RewardOK
  <2>2. perShare + d - paid[b] = (perShare - paid[b]) + d
    BY <1>2, <1>4, <2>1
  <2>3. shares[b] * ((perShare - paid[b]) + d) = shares[b] * (perShare - paid[b]) + d * shares[b]
    BY <1>4, <2>1
  <2>4. SCALE * unclaimed[b] \in Int /\ shares[b] * (perShare - paid[b]) \in Int /\ d * shares[b] \in Int
    BY <1>2, <1>4, <2>1
  <2>5. Owed'[b] = shares[b] * ((perShare - paid[b]) + d) + SCALE * unclaimed[b]
    <3>1. Owed'[b] = shares'[b] * (perShare' - paid'[b]) + SCALE * unclaimed'[b]
      BY <1>7
    <3>2. shares'[b] = shares[b] /\ perShare' = perShare + d /\ paid'[b] = paid[b]
          /\ unclaimed'[b] = unclaimed[b]
      BY <1>1
    <3>3. perShare' - paid'[b] = (perShare - paid[b]) + d
      BY <1>2, <1>4, <2>1, <3>2
    <3> QED
      BY <3>1, <3>2, <3>3
  <2>6. Owed[b] = shares[b] * (perShare - paid[b]) + SCALE * unclaimed[b]
    BY DEF Owed
  <2> QED
    BY <2>3, <2>4, <2>5, <2>6
<1>9. Owed' \in [Accounts -> Int] /\ Owed \in [Accounts -> Int] /\ shares \in [Accounts -> Int] /\ d \in Int
  BY <1>4, <1>6, <1>7, <1>8 DEF StakeOK
<1>10. Total(Owed') <= Total(Owed) + d * Total(shares)
  BY <1>8, <1>9, TotalIsMonotone
<1>11. Total(Owed') \in Int /\ Total(Owed) \in Int
  BY <1>9, TotalOf
<1>12. Total(Owed') <= weth * SCALE + x * SCALE
  <2>1. SCALE * weth = weth * SCALE /\ d * supply \in Nat
    BY <1>2, <1>4, Product
  <2> QED
    BY <1>3, <1>4, <1>10, <1>11, <2>1 DEF Covered, StakeOK
<1>13. SCALE * (weth + x) = weth * SCALE + x * SCALE
  BY <1>2
<1> QED
  BY <1>1, <1>5, <1>12, <1>13 DEF Covered

-----------------------------------------------------------------------------
(* Shares, penalties and timers                                              *)

\* The penalty rate is below one (getPenaltyBps).
LEMMA PenaltyBpsIsBounded ==
  ASSUME TimeOK, NEW a \in Accounts
  PROVE  PenaltyBps(a) \in Nat /\ PenaltyBps(a) < BPS
<1> DEFINE e == now - depositTime[a]
<1>1. /\ e \in Nat
      /\ MAX_PENALTY_BPS \in Nat /\ MAX_PENALTY_BPS < BPS /\ BPS \in Nat
      /\ PENALTY_DURATION \in Nat /\ PENALTY_DURATION > 0
  BY VaultAssumption DEF TimeOK
<1>2. CASE depositTime[a] = 0 \/ e >= PENALTY_DURATION
  BY <1>1, <1>2 DEF PenaltyBps
<1>3. CASE ~(depositTime[a] = 0 \/ e >= PENALTY_DURATION)
  <2>1. PENALTY_DURATION - e \in Nat /\ PENALTY_DURATION - e <= PENALTY_DURATION
    BY <1>1, <1>3
  <2>2. (MAX_PENALTY_BPS * (PENALTY_DURATION - e)) \div PENALTY_DURATION \in 0..MAX_PENALTY_BPS
    BY <1>1, <2>1, ProportionIsBounded
  <2>3. PenaltyBps(a) = (MAX_PENALTY_BPS * (PENALTY_DURATION - e)) \div PENALTY_DURATION
    BY <1>3 DEF PenaltyBps
  <2> QED
    BY <1>1, <2>2, <2>3
<1> QED
  BY <1>2, <1>3

\* A penalty is at most the amount.
LEMMA PenaltyIsBounded ==
  ASSUME TimeOK, NEW a \in Accounts, NEW gross \in Nat
  PROVE  Penalty(gross, a) \in 0..gross
<1>1. PenaltyBps(a) \in Nat /\ PenaltyBps(a) <= BPS /\ BPS \in Nat /\ BPS > 0
  BY PenaltyBpsIsBounded, VaultAssumption
<1> QED
  BY <1>1, ProportionIsBounded DEF Penalty

\* The gross amount of a withdrawal is at least the net amount (_grossFromNet).
LEMMA GrossCoversNet ==
  ASSUME TimeOK, NEW a \in Accounts, NEW net \in Nat
  PROVE  GrossFromNet(net, a) \in Nat /\ net <= GrossFromNet(net, a)
<1> DEFINE d == BPS - PenaltyBps(a)
           gross == GrossFromNet(net, a)
<1>1. PenaltyBps(a) \in Nat /\ PenaltyBps(a) < BPS /\ BPS \in Nat
  BY PenaltyBpsIsBounded, VaultAssumption
<1>2. d \in Nat /\ d > 0 /\ d <= BPS /\ net * BPS \in Nat
  BY <1>1, Product
<1>3. gross \in Nat /\ net * BPS <= gross * d
  BY <1>2, Ceiling DEF GrossFromNet
<1> HIDE DEF d, gross
<1>4. d * net <= BPS * net /\ d * net = net * d /\ BPS * net = net * BPS
  BY <1>1, <1>2, Product
<1>5. net * d \in Nat /\ gross * d \in Nat
  BY <1>2, <1>3, Product
<1>6. net * d <= gross * d
  BY <1>2, <1>3, <1>4, <1>5
<1> QED
  BY <1>2, <1>3, <1>6, Cancelled DEF gross

\* A blended timer lies between the old deposit and the clock.
LEMMA BlendedInPast ==
  ASSUME StakeOK, TimeOK, NEW a \in Accounts, NEW n \in Nat
  PROVE  Blended(a, n) \in Nat /\ Blended(a, n) <= now
<1> DEFINE d == depositTime[a]
           m == shares[a]
<1>1. d \in Nat /\ m \in Nat /\ now \in Nat /\ d <= now
  BY DEF StakeOK, TimeOK
<1>2. CASE ~(m > 0 /\ d > 0)
  BY <1>1, <1>2 DEF Blended
<1>3. CASE m > 0 /\ d > 0
  <2>1. Blended(a, n) = (d * m + now * n) \div (m + n)
    BY <1>3 DEF Blended
  <2> HIDE DEF d, m
  <2>2. d * m \in Nat /\ now * n \in Nat /\ now * m \in Nat /\ d * m <= now * m
    BY <1>1, Product
  <2>3. m + n \in Nat /\ m + n > 0 /\ d * m + now * n \in Nat
    BY <1>1, <1>3, <2>2
  <2> DEFINE q == (d * m + now * n) \div (m + n)
  <2>4. q \in Nat /\ q * (m + n) <= d * m + now * n
    BY <2>3, Floor
  <2> HIDE DEF q
  <2>5. now * (m + n) = now * m + now * n
    BY <1>1
  <2>6. q * (m + n) \in Nat
    BY <2>3, <2>4, Product
  <2>7. q * (m + n) <= now * (m + n)
    BY <2>2, <2>4, <2>5, <2>6
  <2>8. q <= now
    BY <1>1, <2>3, <2>4, <2>7, Cancelled
  <2> QED
    BY <2>1, <2>4, <2>8 DEF q
<1> QED
  BY <1>2, <1>3

\* Nobody holds more than the supply.
LEMMA SharesBounded ==
  ASSUME StakeOK, NEW a \in Accounts
  PROVE  shares[a] \in Nat /\ shares[a] <= supply
BY MemberOfTotal DEF StakeOK

\* The two rates of the conversion: one virtual asset and one virtual share.
LEMMA Rates ==
  ASSUME StakeOK
  PROVE  assets + 1 \in Nat /\ assets + 1 > 0 /\ supply + 1 \in Nat /\ supply + 1 > 0
BY DEF StakeOK

-----------------------------------------------------------------------------
(* What enters and leaves the vault                                          *)

PriceHolds == (assets' + 1) * (supply + 1) >= (assets + 1) * (supply' + 1)

\* An exit takes at most what its shares are worth.
FairExit(a, net, penalty, n) ==
  /\ net \in Nat /\ penalty \in Nat /\ n \in Nat
  /\ n <= shares[a]
  /\ (net + penalty) * (supply + 1) <= n * (assets + 1)

\* A redemption is a fair exit.
LEMMA RedeemIsFair ==
  ASSUME StakeOK, TimeOK, NEW a \in Accounts, NEW n \in Nat, n <= shares[a]
  PROVE  LET gross == AssetsFloor(n) IN FairExit(a, gross - Penalty(gross, a), Penalty(gross, a), n)
<1> DEFINE gross == AssetsFloor(n)
<1>1. n * (assets + 1) \in Nat
  BY Rates, Product
<1>2. gross \in Nat /\ gross * (supply + 1) <= n * (assets + 1)
  BY <1>1, Rates, Floor DEF AssetsFloor
<1>3. Penalty(gross, a) \in 0..gross
  BY <1>2, PenaltyIsBounded
<1> HIDE DEF gross
<1>4. Penalty(gross, a) \in Nat /\ gross - Penalty(gross, a) \in Nat
      /\ (gross - Penalty(gross, a)) + Penalty(gross, a) = gross
  BY <1>2, <1>3
<1> QED
  BY <1>2, <1>4 DEF FairExit, gross

\* A withdrawal within maxWithdraw is a fair exit, capped at the balance or not.
LEMMA WithdrawIsFair ==
  ASSUME StakeOK, TimeOK, NEW a \in Accounts, NEW x \in Nat, x <= MaxWithdraw(a)
  PROVE  /\ FairExit(a, x, WithdrawTerms(a, x).penalty, WithdrawTerms(a, x).n)
         /\ x + WithdrawTerms(a, x).penalty <= AssetsFloor(shares[a])
<1> DEFINE all == AssetsFloor(shares[a])
           gross == GrossFromNet(x, a)
           n == SharesCeil(gross)
           A == assets + 1
           S == supply + 1
<1>1. A \in Nat /\ A > 0 /\ S \in Nat /\ S > 0 /\ shares[a] \in Nat
  BY Rates, SharesBounded
<1>2. shares[a] * A \in Nat
  BY <1>1, Product
<1>3. all \in Nat /\ all * S <= shares[a] * A /\ \A g \in Nat : g * S <= shares[a] * A => g <= all
  BY <1>1, <1>2, Floor DEF AssetsFloor
<1>4. Penalty(all, a) \in 0..all
  BY <1>3, PenaltyIsBounded
<1>5. x <= all
  BY <1>3, <1>4 DEF MaxWithdraw
<1>6. gross \in Nat /\ x <= gross
  BY GrossCoversNet
<1>7. n \in Nat /\ gross * S <= n * A
  <2>1. gross * S \in Nat
    BY <1>1, <1>6, Product
  <2> QED
    BY <1>1, <2>1, Ceiling DEF SharesCeil
<1>8. CASE n > shares[a]
  <2>1. WithdrawTerms(a, x).penalty = all - x /\ WithdrawTerms(a, x).n = shares[a]
    BY <1>8 DEF WithdrawTerms
  <2> HIDE DEF all, gross, n
  <2>2. all - x \in Nat /\ x + (all - x) = all
    BY <1>3, <1>5
  <2> QED
    BY <1>1, <1>3, <2>1, <2>2 DEF FairExit, all
<1>9. CASE ~(n > shares[a])
  <2>1. WithdrawTerms(a, x).penalty = gross - x /\ WithdrawTerms(a, x).n = n
    BY <1>9 DEF WithdrawTerms
  <2> HIDE DEF all, gross, n
  <2>2. gross - x \in Nat /\ x + (gross - x) = gross
    BY <1>6
  <2>3. n <= shares[a]
    BY <1>1, <1>7, <1>9
  <2>4. gross * S \in Nat /\ n * A \in Nat /\ n * A <= shares[a] * A
    BY <1>1, <1>6, <1>7, <2>3, Product
  <2>5. gross <= all
    BY <1>2, <1>3, <1>6, <1>7, <2>4
  <2> QED
    BY <1>6, <1>7, <2>1, <2>2, <2>3, <2>5 DEF FairExit, all
<1> QED
  BY <1>8, <1>9

\* An entry pays at least what its shares are worth.
LEMMA EntryKeeps ==
  ASSUME VaultInv, NEW a \in Accounts, NEW x \in Nat, NEW n \in Nat,
         n * (assets + 1) <= x * (supply + 1),
         assets' = assets + x, MintTo(a, n), now' = now
  PROVE  VaultInv' /\ PriceHolds
<1>1. /\ assets \in Nat /\ supply \in Nat /\ now \in Nat /\ shares \in [Accounts -> Nat]
      /\ Total(shares) = supply
  BY DEF VaultInv, StakeOK, TimeOK
<1>2. /\ Snapshot({a}) /\ shares' = [shares EXCEPT ![a] = @ + n] /\ supply' = supply + n
      /\ depositTime' = IF n > 0 THEN [depositTime EXCEPT ![a] = Blended(a, n)] ELSE depositTime
  BY DEF MintTo
<1>3. StakeOK'
  <2>1. shares' \in [Accounts -> Nat]
    BY <1>1, <1>2
  <2>2. \A b \in Accounts : shares'[b] = IF b = a THEN shares[b] + n ELSE shares[b]
    BY <1>1, <1>2
  <2>3. shares \in [Accounts -> Int] /\ shares' \in [Accounts -> Int] /\ n \in Int
    BY <1>1, <2>1
  <2>4. Total(shares') = Total(shares) + n
    BY <2>2, <2>3, TotalChanged
  <2> QED
    BY <1>1, <1>2, <2>1, <2>4 DEF StakeOK
<1>4. TimeOK'
  <2>1. Blended(a, n) \in Nat /\ Blended(a, n) <= now
    BY BlendedInPast DEF VaultInv
  <2> QED
    BY <1>2, <2>1 DEF VaultInv, TimeOK
<1>5. RewardOK' /\ Covered'
  <2>1. {a} \in SUBSET Accounts /\ shares' \in [Accounts -> Nat]
        /\ \A b \in Accounts \ {a} : shares'[b] = shares[b]
    BY <1>1, <1>2
  <2> QED
    BY <1>2, <2>1, SnapshotCovers DEF VaultInv
<1>6. PriceHolds
  <2>1. (assets + x + 1) * (supply + 1) = (assets + 1) * (supply + 1) + x * (supply + 1)
    BY <1>1
  <2>2. (assets + 1) * (supply + n + 1) = (assets + 1) * (supply + 1) + n * (assets + 1)
    BY <1>1
  <2>3. /\ (assets + 1) * (supply + 1) \in Nat /\ x * (supply + 1) \in Nat
        /\ n * (assets + 1) \in Nat
    BY <1>1, Product
  <2>4. (assets + x + 1) * (supply + 1) >= (assets + 1) * (supply + n + 1)
    BY <2>1, <2>2, <2>3
  <2> QED
    BY <1>2, <2>4 DEF PriceHolds
<1> QED
  BY <1>3, <1>4, <1>5, <1>6 DEF VaultInv

\* An exit at most at its worth keeps the invariant and the price.
LEMMA ExitKeeps ==
  ASSUME VaultInv, NEW a \in Accounts, NEW net, NEW penalty, NEW n,
         FairExit(a, net, penalty, n), ExecuteWithdraw(a, net, penalty, n), now' = now
  PROVE  VaultInv' /\ PriceHolds
<1> DEFINE out == net + penalty \div 2
           A == assets + 1
           S == supply + 1
<1>1. /\ assets \in Nat /\ supply \in Nat /\ now \in Nat /\ shares \in [Accounts -> Nat]
      /\ Total(shares) = supply
  BY DEF VaultInv, StakeOK, TimeOK
<1>2. /\ net \in Nat /\ penalty \in Nat /\ n \in Nat /\ n <= shares[a]
      /\ (net + penalty) * S <= n * A
  BY DEF FairExit
<1>3. /\ Snapshot({a}) /\ shares' = [shares EXCEPT ![a] = @ - n] /\ supply' = supply - n
      /\ assets' = assets - net - penalty \div 2 /\ depositTime' = depositTime
  BY DEF ExecuteWithdraw
<1>4. shares[a] \in Nat /\ shares[a] <= supply
  BY SharesBounded DEF VaultInv
<1>5. penalty \div 2 \in Nat /\ penalty \div 2 <= penalty
  BY <1>2
<1>6. out \in Nat /\ out <= net + penalty /\ assets' = assets - out
  BY <1>1, <1>2, <1>3, <1>5
<1> HIDE DEF out
<1>7. A \in Nat /\ A > 0 /\ S \in Nat /\ S > 0 /\ n < S
  BY <1>1, <1>2, <1>4
<1>8. out * S <= n * A
  <2>1. out * S \in Nat /\ (net + penalty) * S \in Nat /\ out * S <= (net + penalty) * S
    BY <1>2, <1>6, <1>7, Product
  <2>2. n * A \in Nat
    BY <1>2, <1>7, Product
  <2> QED
    BY <1>2, <2>1, <2>2
<1>9. out <= assets
  <2>1. n * A < S * A /\ S * A = A * S
    BY <1>2, <1>7, Product
  <2>2. out * S \in Nat /\ n * A \in Nat /\ A * S \in Nat
    BY <1>2, <1>6, <1>7, Product
  <2>3. out * S < A * S
    BY <1>8, <2>1, <2>2
  <2>4. out < A
    BY <1>6, <1>7, <2>3, Cancelled
  <2> QED
    BY <1>1, <1>6, <2>4
<1>10. StakeOK'
  <2>1. shares' \in [Accounts -> Nat]
    BY <1>1, <1>2, <1>3, <1>4
  <2>2. \A b \in Accounts : shares'[b] = IF b = a THEN shares[b] + (-n) ELSE shares[b]
    BY <1>1, <1>2, <1>3
  <2>3. shares \in [Accounts -> Int] /\ shares' \in [Accounts -> Int] /\ -n \in Int
    BY <1>1, <1>2, <2>1
  <2>4. Total(shares') = Total(shares) + (-n)
    BY <2>2, <2>3, TotalChanged
  <2>5. supply' \in Nat /\ assets' \in Nat /\ Total(shares') = supply'
    BY <1>1, <1>2, <1>3, <1>4, <1>6, <1>9, <2>4
  <2> QED
    BY <2>1, <2>5 DEF StakeOK
<1>11. TimeOK'
  BY <1>3 DEF VaultInv, TimeOK
<1>12. RewardOK' /\ Covered'
  <2>1. {a} \in SUBSET Accounts /\ shares' \in [Accounts -> Nat]
        /\ \A b \in Accounts \ {a} : shares'[b] = shares[b]
    BY <1>1, <1>3, <1>10 DEF StakeOK
  <2> QED
    BY <1>3, <2>1, SnapshotCovers DEF VaultInv
<1>13. PriceHolds
  <2>1. (A - out) * S = A * S - out * S
    BY <1>6, <1>7
  <2>2. A * (S - n) = A * S - n * A
    BY <1>2, <1>7
  <2>3. A * S \in Nat /\ out * S \in Nat /\ n * A \in Nat
    BY <1>2, <1>6, <1>7, Product
  <2>4. (A - out) * S >= A * (S - n)
    BY <1>8, <2>1, <2>2, <2>3
  <2>5. assets' + 1 = A - out /\ supply' + 1 = S - n
    BY <1>1, <1>2, <1>3, <1>6
  <2> QED
    BY <2>4, <2>5 DEF PriceHolds
<1> QED
  BY <1>10, <1>11, <1>12, <1>13 DEF VaultInv

\* Calls that leave assets and supply alone.
LEMMA SamePrice ==
  ASSUME StakeOK, assets' = assets, supply' = supply PROVE PriceHolds
<1>1. (assets + 1) * (supply + 1) \in Nat
  BY Rates, Product
<1> QED
  BY <1>1 DEF PriceHolds

\* A transfer keeps the invariant; the price does not move.
LEMMA TransferKeeps ==
  ASSUME VaultInv, NEW a \in Accounts, NEW b \in Accounts, NEW n \in Nat,
         Transfer(a, b, n), now' = now
  PROVE  VaultInv' /\ PriceHolds
<1>1. /\ assets \in Nat /\ supply \in Nat /\ now \in Nat /\ shares \in [Accounts -> Nat]
      /\ Total(shares) = supply
  BY DEF VaultInv, StakeOK, TimeOK
<1>2. /\ n <= shares[a] /\ Snapshot({a, b})
      /\ shares' = [shares EXCEPT ![a] = @ - n, ![b] = @ + n]
      /\ depositTime' = [depositTime EXCEPT ![b] = Blended(b, n)]
      /\ assets' = assets /\ supply' = supply
  BY DEF Transfer
<1> DEFINE mid == [shares EXCEPT ![a] = @ - n]
<1>3. /\ mid \in [Accounts -> Int]
      /\ \A c \in Accounts : mid[c] = IF c = a THEN shares[c] + (-n) ELSE shares[c]
      /\ \A c \in Accounts : shares'[c] = IF c = b THEN mid[c] + n ELSE mid[c]
  BY <1>1, <1>2
<1>4. shares' \in [Accounts -> Nat]
  BY <1>1, <1>2
<1> HIDE DEF mid
<1>5. shares \in [Accounts -> Int] /\ shares' \in [Accounts -> Int] /\ -n \in Int /\ n \in Int
  BY <1>1, <1>4
<1>6. Total(mid) = Total(shares) + (-n)
  BY <1>3, <1>5, TotalChanged
<1>7. Total(shares') = Total(mid) + n
  BY <1>3, <1>5, TotalChanged
<1>8. StakeOK'
  BY <1>1, <1>2, <1>4, <1>6, <1>7 DEF StakeOK
<1>9. TimeOK'
  <2>1. Blended(b, n) \in Nat /\ Blended(b, n) <= now
    BY BlendedInPast DEF VaultInv
  <2> QED
    BY <1>2, <2>1 DEF VaultInv, TimeOK
<1>10. RewardOK' /\ Covered'
  <2>1. {a, b} \in SUBSET Accounts /\ \A c \in Accounts \ {a, b} : shares'[c] = shares[c]
    BY <1>1, <1>2
  <2> QED
    BY <1>2, <1>4, <2>1, SnapshotCovers DEF VaultInv
<1>11. PriceHolds
  BY <1>2, SamePrice DEF VaultInv
<1> QED
  BY <1>8, <1>9, <1>10, <1>11 DEF VaultInv

\* Donations to the vault, of WCHAN and of WETH, either or both.
LEMMA DonationKeeps ==
  ASSUME VaultInv, NEW x \in Nat, NEW y \in Nat, NEW z \in Nat,
         Donate(x) \/ UNCHANGED stakeVars,
         DonateReward(y) \/ DonateRewards(y, z) \/ UNCHANGED rewardVars, now' = now
  PROVE  VaultInv' /\ PriceHolds
<1>1. /\ assets \in Nat /\ supply \in Nat
  BY DEF VaultInv, StakeOK
<1>2. /\ shares' = shares /\ supply' = supply /\ depositTime' = depositTime
      /\ assets' = assets + x \/ assets' = assets
  BY DEF Donate, stakeVars
<1>3. assets' \in Nat /\ assets' >= assets
  BY <1>1, <1>2
<1>4. StakeOK' /\ TimeOK'
  BY <1>2, <1>3 DEF VaultInv, StakeOK, TimeOK
<1>5. RewardOK' /\ Covered'
  <2>1. CASE DonateReward(y)
    <3>1. /\ supply > 0 /\ weth' = weth + y /\ perShare' = perShare + Gain(y)
          /\ UNCHANGED <<paid, unclaimed>>
      BY <2>1 DEF DonateReward
    <3>2. Gain(y) \in Nat /\ Gain(y) * supply <= y * SCALE
      BY <3>1, GainIsCovered DEF VaultInv
    <3> QED
      BY <1>2, <3>1, <3>2, DonationCovers DEF VaultInv
  <2>3. CASE DonateRewards(y, z)
    <3> DEFINE d == Gain(y) + Gain(z)
    <3>1. supply > 0 /\ UNCHANGED <<paid, unclaimed>>
      BY <2>3 DEF DonateRewards
    <3>2. d \in Nat /\ d * supply <= (y + z) * SCALE
      BY <3>1, GainsAreCovered, Zenon DEF VaultInv
    <3>5. y + z \in Nat
      OBVIOUS
    <3>3. Gain(y) \in Nat /\ Gain(z) \in Nat /\ weth \in Nat /\ perShare \in Nat
      BY <3>1, GainIsCovered DEF VaultInv, RewardOK
    <3>4. weth' = weth + (y + z) /\ perShare' = perShare + d
      BY <2>3, <3>3 DEF DonateRewards
    <3> HIDE DEF d
    <3> QED
      BY <1>2, <3>1, <3>2, <3>4, <3>5, DonationCovers DEF VaultInv
  <2>2. CASE UNCHANGED rewardVars
    BY <1>2, <2>2 DEF VaultInv, RewardOK, Covered, Owed, rewardVars
  <2> QED
    BY <2>1, <2>2, <2>3
<1>6. PriceHolds
  <2>1. assets + 1 \in Nat /\ assets' + 1 \in Nat /\ supply + 1 \in Nat /\ assets + 1 <= assets' + 1
    <3>1. assets + 1 \in Nat /\ supply + 1 \in Nat
      BY <1>1
    <3>2. \A m, n \in Nat : m >= n => n + 1 <= m + 1 /\ m + 1 \in Nat
      OBVIOUS
    <3> QED
      BY <1>1, <1>3, <3>1, <3>2
  <2>2. (assets + 1) * (supply + 1) <= (assets' + 1) * (supply + 1)
    BY <2>1, Product
  <2>3. (assets + 1) * (supply + 1) \in Nat /\ (assets' + 1) * (supply + 1) \in Nat
    BY <2>1, Product
  <2> QED
    BY <1>2, <2>2, <2>3 DEF PriceHolds
<1> QED
  BY <1>4, <1>5, <1>6 DEF VaultInv

-----------------------------------------------------------------------------
(* The drip                                                                  *)

StreamOK == stream \in [Tokens -> [start : Nat, end : Nat, last : Nat, remaining : Nat]]

\* The streams are well formed, no drip lies in the future, and the balance
\* covers what remains.
DripInv ==
  /\ now \in Nat /\ interval \in Nat
  /\ held \in [Tokens -> Nat]
  /\ StreamOK
  /\ \A t \in Tokens : stream[t].last <= now
  /\ DripSolvency

\* What a drip pays is at most what remains.
LEMMA AmountIsBounded ==
  ASSUME DripInv, NEW t \in Tokens, NEW check \in BOOLEAN
  PROVE  DripAmount(stream[t], check) \in 0..stream[t].remaining
<1> DEFINE s == stream[t]
<1>1. /\ s.remaining \in Nat /\ s.last \in Nat /\ s.end \in Nat
      /\ now \in Nat /\ s.last <= now
  BY DEF DripInv, StreamOK
<1>2. CASE now < s.end
  <2> DEFINE e == now - s.last
             d == s.end - s.last
  <2>1. e \in Nat /\ d \in Nat /\ d > 0 /\ e <= d
    BY <1>1, <1>2
  <2>2. (s.remaining * e) \div d \in 0..s.remaining
    BY <1>1, <2>1, ProportionIsBounded
  <2> QED
    BY <1>1, <1>2, <2>2 DEF DripAmount
<1>3. CASE ~(now < s.end)
  BY <1>1, <1>3 DEF DripAmount
<1> QED
  BY <1>2, <1>3

\* Paying a part of what remains keeps a stream well formed.
LEMMA PaidOut ==
  ASSUME now \in Nat,
         NEW s \in [start : Nat, end : Nat, last : Nat, remaining : Nat],
         NEW amount \in 0..s.remaining
  PROVE  /\ Paid(s, amount) \in [start : Nat, end : Nat, last : Nat, remaining : Nat]
         /\ Paid(s, amount).last = now
         /\ Paid(s, amount).remaining = s.remaining - amount
         /\ s.remaining - amount \in 0..s.remaining
<1>1. s.remaining \in Nat
  OBVIOUS
<1>2. s.remaining - amount \in 0..s.remaining
  BY <1>1
<1> QED
  BY <1>1, <1>2 DEF Paid

\* A settlement keeps a stream well formed and takes nothing it does not have.
LEMMA SettledIsBounded ==
  ASSUME DripInv, NEW t \in Tokens
  PROVE  /\ Settled(t) \in [start : Nat, end : Nat, last : Nat, remaining : Nat]
         /\ Settled(t).last <= now
         /\ Settled(t).remaining <= stream[t].remaining
<1>1. /\ stream[t] \in [start : Nat, end : Nat, last : Nat, remaining : Nat]
      /\ stream[t].last <= now /\ now \in Nat
  BY DEF DripInv, StreamOK
<1>2. PICK amount \in 0..stream[t].remaining : amount = DripAmount(stream[t], FALSE)
  BY AmountIsBounded, Zenon
<1>3. \/ Settled(t) = stream[t]
      \/ Settled(t) = Paid(stream[t], amount)
  BY <1>2, Zenon DEF Settled
<1>4. CASE Settled(t) = stream[t]
  BY <1>1, <1>4
<1>5. CASE Settled(t) = Paid(stream[t], amount)
  <2>1. /\ Settled(t) \in [start : Nat, end : Nat, last : Nat, remaining : Nat]
        /\ Settled(t).last = now
        /\ Settled(t).remaining \in 0..stream[t].remaining
    BY <1>1, <1>5, PaidOut
  <2>2. stream[t].remaining \in Nat
    BY <1>1
  <2> QED
    BY <2>1, <2>2, <1>1
<1> QED
  BY <1>3, <1>4, <1>5

\* The first drip of a fresh stream is at most the stream.
LEMMA FirstDripIsBounded ==
  ASSUME NEW t \in Tokens, NEW s, s.remaining \in Nat, s.end \in Nat,
         now \in Nat, interval \in Nat
  PROVE  FirstDrip(t, s) \in 0..s.remaining
<1>1. CASE s.end - now > interval
  <2>1. (s.remaining * interval) \div (s.end - now) \in 0..s.remaining
    BY <1>1, ProportionIsBounded
  <2> QED
    BY <1>1, <2>1 DEF FirstDrip
<1>2. CASE ~(s.end - now > interval)
  BY <1>2 DEF FirstDrip
<1> QED
  BY <1>1, <1>2

\* The streams are empty at first.
LEMMA DripInit == Init => DripInv
  BY DripAssumption DEF Init, VaultInit, DripInv, StreamOK, DripSolvency, Tokens

\* Configuring a stream keeps the invariant.
LEMMA ConfigureKeepsInv ==
  ASSUME DripInv, NEW t \in Tokens, NEW amount \in Nat, NEW end \in Nat,
         ConfigureDrip(t, amount, end), now' = now
  PROVE  DripInv'
<1> DEFINE set == Settled(t)
           s == ToppedUp(t, amount, end)
           settlement == stream[t].remaining - set.remaining
           first == FirstDrip(t, s)
<1>1. /\ stream[t].remaining \in Nat /\ held[t] \in Nat
      /\ held[t] >= stream[t].remaining /\ now \in Nat /\ interval \in Nat
  BY DEF DripInv, StreamOK, DripSolvency
<1>2. /\ set \in [start : Nat, end : Nat, last : Nat, remaining : Nat]
      /\ set.last <= now /\ set.remaining <= stream[t].remaining
  BY SettledIsBounded
<1>3. /\ s \in [start : Nat, end : Nat, last : Nat, remaining : Nat]
      /\ s.last <= now
      /\ s.remaining = set.remaining + amount
  BY <1>1, <1>2 DEF ToppedUp
<1>4. first \in 0..s.remaining
  BY <1>1, <1>3, FirstDripIsBounded
<1>5. /\ held' = [held EXCEPT ![t] = @ + amount - settlement - first]
      /\ stream' = [stream EXCEPT ![t] = [s EXCEPT !.remaining = @ - first]]
      /\ interval' = interval
  BY DEF ConfigureDrip
<1>6. held[t] + amount - settlement - first \in Nat
  BY <1>1, <1>2, <1>3, <1>4
<1>7. held[t] + amount - settlement - first >= s.remaining - first
  BY <1>1, <1>2, <1>3, <1>4
<1>8. [s EXCEPT !.remaining = @ - first]
        \in [start : Nat, end : Nat, last : Nat, remaining : Nat]
  BY <1>3, <1>4
<1>9. StreamOK'
  BY <1>5, <1>8 DEF DripInv, StreamOK
<1>10. held' \in [Tokens -> Nat]
  BY <1>5, <1>6 DEF DripInv
<1>11. \A u \in Tokens : stream'[u].last <= now'
  BY <1>3, <1>5 DEF DripInv, StreamOK
<1>12. DripSolvency'
  BY <1>3, <1>5, <1>7 DEF DripInv, StreamOK, DripSolvency
<1> QED
  BY <1>1, <1>5, <1>9, <1>10, <1>11, <1>12 DEF DripInv

\* A drip pays each stream's amount out of its balance.
LEMMA DripKeepsInv ==
  ASSUME DripInv, Drip, now' = now
  PROVE  DripInv'
<1> DEFINE amount == [t \in Tokens |->
             IF t = "wchan" THEN DripAmount(stream["wchan"], TRUE)
             ELSE IF Skipped("weth") THEN 0 ELSE DripAmount(stream["weth"], TRUE)]
<1>1. \A t \in Tokens : amount[t] \in 0..stream[t].remaining
  <2> SUFFICES ASSUME NEW t \in Tokens PROVE amount[t] \in 0..stream[t].remaining
    OBVIOUS
  <2>1. DripAmount(stream[t], TRUE) \in 0..stream[t].remaining /\ stream[t].remaining \in Nat
    <3>1. stream[t].remaining \in Nat
      BY DEF DripInv, StreamOK
    <3> QED
      BY <3>1, AmountIsBounded, Zenon
  <2>2. amount[t] = DripAmount(stream[t], TRUE) \/ amount[t] = 0
    BY Zenon DEF Tokens
  <2>3. 0 \in 0..stream[t].remaining
    BY <2>1
  <2> QED
    BY <2>1, <2>2, <2>3, Zenon
<1>2. /\ stream' = [t \in Tokens |->
            IF amount[t] = 0 THEN stream[t]
            ELSE Paid(stream[t], amount[t])]
      /\ held' = [t \in Tokens |-> held[t] - amount[t]]
      /\ interval' = interval
  BY Zenon DEF Drip
<1> HIDE DEF amount
<1>3. ASSUME NEW t \in Tokens
      PROVE  /\ stream'[t] \in [start : Nat, end : Nat, last : Nat, remaining : Nat]
             /\ stream'[t].last <= now
             /\ held'[t] \in Nat /\ held'[t] >= stream'[t].remaining
  <2>1. /\ stream[t] \in [start : Nat, end : Nat, last : Nat, remaining : Nat]
        /\ stream[t].last <= now /\ now \in Nat
        /\ held[t] \in Nat /\ held[t] >= stream[t].remaining
    BY DEF DripInv, StreamOK, DripSolvency
  <2>2. amount[t] \in 0..stream[t].remaining
    BY <1>1
  <2>3. held'[t] = held[t] - amount[t]
    BY <1>2
  <2>4. CASE amount[t] = 0
    <3>1. stream'[t] = stream[t]
      BY <1>2, <2>4
    <3> QED
      BY <2>1, <2>3, <2>4, <3>1
  <2>5. CASE amount[t] /= 0
    <3>1. stream'[t] = Paid(stream[t], amount[t])
      BY <1>2, <2>5
    <3>2. /\ stream'[t] \in [start : Nat, end : Nat, last : Nat, remaining : Nat]
          /\ stream'[t].last = now
          /\ stream'[t].remaining = stream[t].remaining - amount[t]
      BY <2>1, <2>2, <3>1, PaidOut
    <3> QED
      BY <2>1, <2>2, <2>3, <3>2
  <2> QED
    BY <2>4, <2>5
<1>4. stream' = [t \in Tokens |-> stream'[t]] /\ held' = [t \in Tokens |-> held'[t]]
  BY <1>2
<1> QED
  BY <1>2, <1>3, <1>4 DEF DripInv, StreamOK, DripSolvency

\* Every step keeps the invariant.
LEMMA DripStep == DripInv /\ [Next]_vars => DripInv'
<1> SUFFICES ASSUME DripInv, [Next]_vars PROVE DripInv'
  OBVIOUS
<1> USE VaultAssumption, DripAssumption
<1>1. ASSUME UNCHANGED dripVars, now' \in Nat, now' >= now
      PROVE  DripInv'
  BY <1>1 DEF dripVars, DripInv, StreamOK, DripSolvency
<1>2. CASE Time
  BY <1>1, <1>2 DEF Time, Tick, DripInv
<1>3. ASSUME Call PROVE now' = now
  BY <1>3 DEF Call
<1>4. CASE Call /\ VaultCall
  BY <1>1, <1>3, <1>4 DEF VaultCall, DripInv
<1>5. CASE Call /\ Drip
  BY <1>3, <1>5, DripKeepsInv
<1>6. ASSUME Call, NEW x \in Amounts, DonateToVault(x)
      PROVE  DripInv'
  BY <1>1, <1>3, <1>6 DEF DonateToVault, DripInv
<1>7. ASSUME Call, NEW x \in Amounts, NEW t \in Tokens, SendTokens(t, x)
      PROVE  DripInv'
  BY <1>3, <1>7 DEF SendTokens, DripInv, StreamOK, DripSolvency
<1>8. ASSUME Call, NEW t \in Tokens, NEW x \in Amounts, RecoverTokens(t, x)
      PROVE  DripInv'
  <2>1. /\ x \in Nat /\ x <= held[t]
        /\ held' = [held EXCEPT ![t] = @ - x]
        /\ stream' = [stream EXCEPT ![t].remaining = IF @ < x THEN 0 ELSE @ - x]
        /\ interval' = interval
    BY <1>8 DEF RecoverTokens
  <2> DEFINE r == IF stream[t].remaining < x THEN 0 ELSE stream[t].remaining - x
  <2>2. stream[t] \in [start : Nat, end : Nat, last : Nat, remaining : Nat]
          /\ held[t] \in Nat /\ held[t] >= stream[t].remaining
    BY DEF DripInv, StreamOK, DripSolvency
  <2>3. r \in Nat /\ held[t] - x >= r /\ held[t] - x \in Nat
    BY <2>1, <2>2
  <2>4. stream' = [stream EXCEPT ![t] = [stream[t] EXCEPT !.remaining = r]]
    BY <2>1 DEF DripInv, StreamOK
  <2> QED
    BY <1>3, <1>8, <2>1, <2>2, <2>3, <2>4 DEF DripInv, StreamOK, DripSolvency
<1>9. ASSUME Call, NEW t \in Tokens, NEW x \in Amounts, NEW end \in 1..MaxTime,
             ConfigureDrip(t, x, end)
      PROVE  DripInv'
  BY <1>3, <1>9, ConfigureKeepsInv
<1>10. ASSUME Call, NEW n \in Intervals, SetMinDripInterval(n)
       PROVE  DripInv'
  BY <1>3, <1>10 DEF SetMinDripInterval, DripInv, StreamOK, DripSolvency
<1>11. CASE UNCHANGED vars
  BY <1>1, <1>11 DEF vars, vaultVars, DripInv
<1> QED
  BY <1>2, <1>4, <1>5, <1>6, <1>7, <1>8, <1>9, <1>10, <1>11 DEF Next, AnyoneCall, OwnerCall

-----------------------------------------------------------------------------
(* The contracts together                                                    *)

\* The constructor sets the invariant up.
LEMMA VaultInitInv == Init => VaultInv
<1> SUFFICES ASSUME Init PROVE VaultInv
  OBVIOUS
<1>1. /\ Seed \in Nat /\ SCALE \in Nat /\ BURN_ADDRESS \in Accounts
      /\ assets = Seed /\ supply = Seed /\ weth = 0 /\ perShare = 0 /\ now = 1
      /\ shares = Point(BURN_ADDRESS, Seed)
      /\ paid = [a \in Accounts |-> 0] /\ unclaimed = [a \in Accounts |-> 0]
  BY VaultAssumption DEF Init, VaultInit, Accounts, Point
<1>2. shares \in [Accounts -> Nat]
  BY <1>1 DEF Point
<1>3. Total(shares) = Seed
  BY <1>1, TotalOfPoint
<1>4. StakeOK
  BY <1>1, <1>2, <1>3 DEF StakeOK
<1>5. TimeOK
  BY <1>1 DEF TimeOK, Init, VaultInit
<1>6. RewardOK
  BY <1>1 DEF RewardOK
<1>7. Covered
  <2>1. Owed = Point(BURN_ADDRESS, 0)
    <3>1. ASSUME NEW a \in Accounts
          PROVE  shares[a] * (perShare - paid[a]) + SCALE * unclaimed[a] = 0
      <4>1. shares[a] \in Nat /\ paid[a] = 0 /\ unclaimed[a] = 0 /\ perShare - 0 = 0
        BY <1>1, <1>2
      <4>2. shares[a] * 0 = 0 /\ SCALE * 0 = 0
        BY <1>1, <4>1
      <4> QED
        BY <1>1, <4>1, <4>2
    <3> QED
      BY <3>1 DEF Owed, Point
  <2>2. Total(Owed) = 0
    BY <1>1, <2>1, TotalOfPoint
  <2>3. SCALE * weth = 0
    BY <1>1
  <2> QED
    BY <2>2, <2>3 DEF Covered
<1> QED
  BY <1>4, <1>5, <1>6, <1>7 DEF VaultInv

\* A call of a staker keeps the vault's invariant and the price.
LEMMA StakerKeeps ==
  ASSUME VaultInv, NEW a \in Stakers, StakerCall(a), now' = now
  PROVE  VaultInv' /\ PriceHolds
<1> USE DEF VaultInv
<1>1. a \in Accounts /\ Amounts \subseteq Nat
  BY VaultAssumption DEF Accounts
<1>2. ASSUME ClaimRewards(a) PROVE VaultInv' /\ PriceHolds
  <2>1. RewardOK' /\ Covered'
    BY <1>1, <1>2, ClaimCovers
  <2>2. UNCHANGED stakeVars
    BY <1>2 DEF ClaimRewards
  <2> QED
    BY <2>1, <2>2, SamePrice DEF StakeOK, TimeOK, stakeVars
<1>3. ASSUME NEW x \in Amounts, Deposit(a, x) PROVE VaultInv' /\ PriceHolds
  <2> DEFINE n == SharesFloor(x)
  <2>1. x * (supply + 1) \in Nat
    BY <1>1, Rates, Product
  <2>2. n \in Nat /\ n * (assets + 1) <= x * (supply + 1)
    BY <2>1, Rates, Floor DEF SharesFloor
  <2>3. assets' = assets + x /\ MintTo(a, n)
    BY <1>3 DEF Deposit
  <2> HIDE DEF n
  <2> QED
    BY <1>1, <2>2, <2>3, EntryKeeps
<1>4. ASSUME NEW n \in Amounts, MintShares(a, n) PROVE VaultInv' /\ PriceHolds
  <2> DEFINE x == AssetsCeil(n)
  <2>1. n * (assets + 1) \in Nat
    BY <1>1, Rates, Product
  <2>2. x \in Nat /\ n * (assets + 1) <= x * (supply + 1)
    BY <2>1, Rates, Ceiling DEF AssetsCeil
  <2>3. assets' = assets + x /\ MintTo(a, n)
    BY <1>4 DEF MintShares
  <2> HIDE DEF x
  <2> QED
    BY <1>1, <2>2, <2>3, EntryKeeps
<1>5. ASSUME NEW n \in Amounts, Redeem(a, n) PROVE VaultInv' /\ PriceHolds
  <2> DEFINE gross == AssetsFloor(n)
             penalty == Penalty(gross, a)
             net == gross - penalty
  <2>1. n <= shares[a] /\ ExecuteWithdraw(a, net, penalty, n)
    BY <1>5 DEF Redeem
  <2>2. FairExit(a, net, penalty, n)
    BY <1>1, <2>1, RedeemIsFair
  <2> HIDE DEF net, penalty
  <2> QED
    BY <1>1, <2>1, <2>2, ExitKeeps
<1>6. ASSUME NEW x \in Amounts, Withdraw(a, x) PROVE VaultInv' /\ PriceHolds
  <2> DEFINE penalty == WithdrawTerms(a, x).penalty
             n == WithdrawTerms(a, x).n
  <2>1. x <= MaxWithdraw(a) /\ ExecuteWithdraw(a, x, penalty, n)
    BY <1>6 DEF Withdraw
  <2>2. FairExit(a, x, penalty, n)
    BY <1>1, <2>1, WithdrawIsFair
  <2> HIDE DEF n, penalty
  <2> QED
    BY <1>1, <2>1, <2>2, ExitKeeps
<1>7. ASSUME NEW b \in Accounts, NEW n \in Amounts, Transfer(a, b, n) PROVE VaultInv' /\ PriceHolds
  BY <1>1, <1>7, TransferKeeps
<1> QED
  BY <1>2, <1>3, <1>4, <1>5, <1>6, <1>7 DEF StakerCall

\* What a drip, a settlement or a first drip pays the vault.
LEMMA PaymentKeeps ==
  ASSUME VaultInv, NEW x \in Nat, NEW y \in Nat, NEW z \in Nat,
         PayWchan(x) \/ UNCHANGED stakeVars, PayWeth(y, z) \/ UNCHANGED rewardVars, now' = now
  PROVE  VaultInv' /\ PriceHolds
<1>1. Donate(x) \/ UNCHANGED stakeVars
  BY DEF PayWchan
<1>2. DonateRewards(y, z) \/ UNCHANGED rewardVars
  BY DEF PayWeth
<1> QED
  BY <1>1, <1>2, DonationKeeps

\* configureDrip pays the settlement and the first drip.
LEMMA ConfigurePays ==
  ASSUME DripInv, VaultInv, NEW t \in Tokens, NEW amount \in Nat, NEW end \in Nat,
         ConfigureDrip(t, amount, end), now' = now
  PROVE  VaultInv' /\ PriceHolds
<1> DEFINE set == Settled(t)
           s == ToppedUp(t, amount, end)
           settlement == stream[t].remaining - set.remaining
           first == FirstDrip(t, s)
<1>1. stream[t].remaining \in Nat /\ now \in Nat /\ interval \in Nat
  BY DEF DripInv, StreamOK
<1>2. /\ set \in [start : Nat, end : Nat, last : Nat, remaining : Nat]
      /\ set.remaining <= stream[t].remaining
  BY SettledIsBounded
<1>3. /\ s \in [start : Nat, end : Nat, last : Nat, remaining : Nat]
  BY <1>1, <1>2 DEF ToppedUp
<1>4. first \in 0..s.remaining
  BY <1>1, <1>3, FirstDripIsBounded
<1>5. settlement \in Nat /\ first \in Nat /\ settlement + first \in Nat
  BY <1>1, <1>2, <1>3, <1>4
<1>6. \/ PayWchan(settlement + first) /\ UNCHANGED rewardVars
      \/ PayWeth(settlement, first) /\ UNCHANGED stakeVars
  BY DEF ConfigureDrip
<1> HIDE DEF settlement, first
<1> QED
  BY <1>5, <1>6, PaymentKeeps

\* drip pays what both streams have due.
LEMMA DripPays ==
  ASSUME DripInv, VaultInv, Drip, now' = now
  PROVE  VaultInv' /\ PriceHolds
<1> DEFINE x == DripAmount(stream["wchan"], TRUE)
           y == IF Skipped("weth") THEN 0 ELSE DripAmount(stream["weth"], TRUE)
<1>1. "wchan" \in Tokens /\ "weth" \in Tokens
  BY DEF Tokens
<1>2. stream["wchan"].remaining \in Nat /\ stream["weth"].remaining \in Nat
  BY <1>1 DEF DripInv, StreamOK
<1>3. x \in 0..stream["wchan"].remaining
      /\ DripAmount(stream["weth"], TRUE) \in 0..stream["weth"].remaining
  BY <1>1, AmountIsBounded
<1>4. x \in Nat /\ y \in Nat
  <2>0. \A r \in Nat : \A v \in 0..r : v \in Nat
    OBVIOUS
  <2>1. x \in Nat /\ DripAmount(stream["weth"], TRUE) \in Nat
    BY <1>2, <1>3, <2>0, Zenon
  <2> HIDE DEF x
  <2> QED
    BY <2>1, Zenon
<1>5. PayWchan(x) /\ PayWeth(y, 0)
  BY DEF Drip
<1> HIDE DEF x, y
<1> QED
  BY <1>4, <1>5, PaymentKeeps

\* Every step keeps the vault's invariant; none lowers the price of a share.
LEMMA VaultStep ==
  ASSUME DripInv, VaultInv, [Next]_vars
  PROVE  VaultInv' /\ PriceHolds
<1>1. Amounts \subseteq Nat /\ 1..MaxTime \subseteq Nat
  BY VaultAssumption
<1>2. ASSUME UNCHANGED <<stakeVars, rewardVars>>, now' \in Nat, now' >= now
      PROVE  VaultInv' /\ PriceHolds
  <2>1. StakeOK' /\ RewardOK' /\ Covered'
    BY <1>2 DEF VaultInv, StakeOK, RewardOK, Covered, Owed, stakeVars, rewardVars
  <2>2. TimeOK'
    BY <1>2 DEF VaultInv, TimeOK, stakeVars
  <2>3. PriceHolds
    BY <1>2, SamePrice DEF VaultInv, stakeVars
  <2> QED
    BY <2>1, <2>2, <2>3 DEF VaultInv
<1>3. now \in Nat
  BY DEF VaultInv, TimeOK
<1>4. ASSUME Call PROVE now' = now
  BY <1>4 DEF Call
<1>5. CASE Time
  BY <1>2, <1>3, <1>5 DEF Time, Tick
<1>6. CASE UNCHANGED vars
  BY <1>2, <1>3, <1>6 DEF vars, vaultVars
<1>7. CASE Call /\ VaultCall
  BY <1>4, <1>7, StakerKeeps DEF VaultCall
<1>8. ASSUME Call, NEW t \in Tokens, NEW x \in Amounts, NEW end \in 1..MaxTime,
             ConfigureDrip(t, x, end)
      PROVE  VaultInv' /\ PriceHolds
  BY <1>1, <1>4, <1>8, ConfigurePays
<1>9. ASSUME Call, NEW t \in Tokens, NEW x \in Amounts, RecoverTokens(t, x)
      PROVE  VaultInv' /\ PriceHolds
  BY <1>2, <1>3, <1>4, <1>9 DEF RecoverTokens
<1>10. ASSUME Call, NEW n \in Intervals, SetMinDripInterval(n)
       PROVE  VaultInv' /\ PriceHolds
  BY <1>2, <1>3, <1>4, <1>10 DEF SetMinDripInterval
<1>11. CASE Call /\ Drip
  BY <1>4, <1>11, DripPays
<1>12. ASSUME Call, NEW x \in Amounts, DonateToVault(x)
       PROVE  VaultInv' /\ PriceHolds
  BY <1>1, <1>4, <1>12, DonationKeeps DEF DonateToVault
<1>13. ASSUME Call, NEW t \in Tokens, NEW x \in Amounts, SendTokens(t, x)
       PROVE  VaultInv' /\ PriceHolds
  BY <1>2, <1>3, <1>4, <1>13 DEF SendTokens
<1> QED
  BY <1>5, <1>6, <1>7, <1>8, <1>9, <1>10, <1>11, <1>12, <1>13 DEF Next, AnyoneCall, OwnerCall

\* Both invariants hold in every reachable state.
LEMMA Inductive == Spec => [](DripInv /\ VaultInv)
<1>1. Init => DripInv /\ VaultInv
  BY DripInit, VaultInitInv
<1>2. (DripInv /\ VaultInv) /\ [Next]_vars => (DripInv /\ VaultInv)'
  BY DripStep, VaultStep
<1> QED
  BY <1>1, <1>2, PTL DEF Spec

-----------------------------------------------------------------------------
(* The theorems                                                              *)

\* The drip contract holds what its streams still owe (DripSolvency), in every
\* reachable state and for every value of the constants.
THEOREM DripIsSolvent == Spec => []DripSolvency
<1>1. DripInv => DripSolvency
  BY DEF DripInv
<1> QED
  BY DripInit, DripStep, <1>1, PTL DEF Spec

\* The vault holds all the WETH its accounts have earned, for any stakers, seed, scale and
\* amounts, through every transfer, donation, claim and rounding (RewardSolvency).
THEOREM VaultIsSolvent == Spec => []RewardSolvency
<1>1. ASSUME VaultInv PROVE RewardSolvency
  <2> DEFINE zero == Point(BURN_ADDRESS, 0)
             earned == [a \in Accounts |-> Earned(a)]
  <2>1. /\ Owed \in [Accounts -> Nat]
        /\ \A a \in Accounts : Earned(a) \in Nat /\ Earned(a) * SCALE <= Owed[a]
    BY <1>1, OwedOf DEF VaultInv
  <2>2. SCALE \in Nat /\ SCALE > 0 /\ weth \in Nat /\ BURN_ADDRESS \in Accounts
    BY <1>1, VaultAssumption DEF VaultInv, RewardOK, Accounts
  <2>3. zero \in [Accounts -> Int] /\ Total(zero) = 0 /\ \A a \in Accounts : zero[a] = 0
    BY <2>2, TotalOfPoint DEF Point
  <2> HIDE DEF zero
  <2>4. MapThenSumSet(Earned, Accounts) = Total(earned)
    <3>1. \A a \in Accounts : Earned(a) \in Int
      BY <2>1
    <3> QED
      BY <3>1, SumOfEarned, Zenon
  <2>5. earned \in [Accounts -> Nat] /\ \A a \in Accounts : earned[a] * SCALE <= Owed[a]
    BY <2>1
  <2> HIDE DEF earned
  <2>6. Total(earned) \in Nat
    BY <2>2, <2>5, MemberOfTotal
  <2>7. ASSUME NEW a \in Accounts PROVE zero[a] <= Owed[a] + (-SCALE) * earned[a]
    <3>1. earned[a] \in Nat /\ Owed[a] \in Nat /\ earned[a] * SCALE <= Owed[a] /\ zero[a] = 0
      BY <2>1, <2>3, <2>5
    <3>2. (-SCALE) * earned[a] = -(earned[a] * SCALE) /\ earned[a] * SCALE \in Nat
      BY <2>2, <3>1
    <3> QED
      BY <3>1, <3>2
  <2>8. Owed \in [Accounts -> Int] /\ earned \in [Accounts -> Int] /\ -SCALE \in Int
    BY <2>1, <2>2, <2>5
  <2>9. Total(zero) <= Total(Owed) + (-SCALE) * Total(earned)
    BY <2>3, <2>7, <2>8, TotalIsMonotone
  <2>10. Total(Owed) \in Int
    BY <2>8, TotalOf
  <2>11. (-SCALE) * Total(earned) = -(Total(earned) * SCALE)
         /\ Total(earned) * SCALE \in Nat /\ SCALE * weth = weth * SCALE /\ weth * SCALE \in Nat
    BY <2>2, <2>6
  <2>12. Total(earned) * SCALE <= weth * SCALE
    BY <1>1, <2>3, <2>9, <2>10, <2>11 DEF VaultInv, Covered
  <2>13. Total(earned) <= weth
    BY <2>2, <2>6, <2>12, Cancelled
  <2> QED
    BY <2>2, <2>4, <2>6, <2>13 DEF RewardSolvency
<1> QED
  BY <1>1, Inductive, PTL

\* Whoever withdraws maxWithdraw burns no more shares than owned and is charged no
\* negative penalty, nor more than the shares are worth (MaxWithdrawWorks).
THEOREM MaxWithdrawAlwaysWorks == Spec => []MaxWithdrawWorks
<1>1. ASSUME VaultInv PROVE MaxWithdrawWorks
  <2> SUFFICES ASSUME NEW a \in Stakers
               PROVE  LET x == MaxWithdraw(a)
                          terms == WithdrawTerms(a, x)
                      IN  terms.n <= shares[a] /\ terms.penalty >= 0
                          /\ x + terms.penalty <= AssetsFloor(shares[a])
    BY DEF MaxWithdrawWorks
  <2> DEFINE x == MaxWithdraw(a)
             all == AssetsFloor(shares[a])
  <2>1. a \in Accounts
    BY DEF Accounts
  <2>2. shares[a] * (assets + 1) \in Nat /\ shares[a] \in Nat
    BY <1>1, <2>1, Rates, SharesBounded, Product DEF VaultInv
  <2>3. all \in Nat
    BY <1>1, <2>2, Rates, Floor DEF VaultInv, AssetsFloor
  <2>4. Penalty(all, a) \in 0..all
    BY <1>1, <2>1, <2>3, PenaltyIsBounded DEF VaultInv
  <2>5. x \in Nat /\ x <= MaxWithdraw(a)
    BY <2>3, <2>4 DEF MaxWithdraw
  <2> HIDE DEF x
  <2>6. /\ FairExit(a, x, WithdrawTerms(a, x).penalty, WithdrawTerms(a, x).n)
        /\ x + WithdrawTerms(a, x).penalty <= all
    BY <1>1, <2>1, <2>5, WithdrawIsFair DEF VaultInv
  <2> QED
    BY <2>6 DEF FairExit, x
<1> QED
  BY <1>1, Inductive, PTL

\* No call of a staker, the owner or anyone else lowers the price of a share
\* (SharePriceNeverFalls).
THEOREM SharePriceHolds == Spec => SharePriceNeverFalls
<1>1. DripInv /\ VaultInv /\ [Next]_vars =>
        [(assets' + 1) * (supply + 1) >= (assets + 1) * (supply' + 1)]_vaultVars
  BY VaultStep DEF PriceHolds
<1> QED
  BY <1>1, Inductive, PTL DEF Spec, SharePriceNeverFalls
=============================================================================
