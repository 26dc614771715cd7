-------------------------- MODULE Matching_proofs ---------------------------
(***************************************************************************)
(* Proofs about Matching, for any number of users, orders and concurrent   *)
(* cancellations, any scale, fees and initial balances: types and row      *)
(* locks, the changes that are announced, the book that is never crossed,  *)
(* and the reservations, which are exactly what the active orders need.    *)
(***************************************************************************)
EXTENDS Matching, FiniteSetTheorems, TLAPS

USE DEF MatchingPhases

-----------------------------------------------------------------------------
(* Products rounded down *)

\* The defining property of rounding down, from which the rest follows.
LEMMA FloorDivision ==
    ASSUME NEW a \in Nat, NEW d \in Nat \ {0}
    PROVE  /\ a \div d \in Nat
           /\ (a \div d) * d <= a
           /\ a < ((a \div d) + 1) * d
BY SMT

\* Of two naturals, the one with the smaller multiple is not larger.
LEMMA MultipleOrder ==
    ASSUME NEW q \in Nat, NEW r \in Nat, NEW d \in Nat \ {0},
           q * d < (r + 1) * d
    PROVE  q <= r
BY SMT

\* multiplyScaled of nonnegative operands is a nonnegative number of units.
LEMMA MultiplyScaledNat ==
    ASSUME NEW a \in Nat, NEW b \in Nat
    PROVE  MultiplyScaled(a, b) \in Nat
<1>1. a * b \in Nat
  BY SMT
<1>2. QED
  BY <1>1, FloorDivision, DecimalsAssumption DEF MultiplyScaled

\* Nothing times anything costs nothing.
LEMMA MultiplyScaledZero ==
    ASSUME NEW b \in Nat
    PROVE  MultiplyScaled(0, b) = 0
<1>1. 0 * b = 0
  BY SMT
<1>2. /\ 0 \div Scale \in Nat
      /\ (0 \div Scale) * Scale <= 0
  BY FloorDivision, DecimalsAssumption
<1>3. 0 \div Scale = 0
  BY <1>2, DecimalsAssumption, SMT
<1>4. QED
  BY <1>1, <1>3 DEF MultiplyScaled

\* A larger product rounds to no less.
LEMMA DivisionMonotone ==
    ASSUME NEW a \in Nat, NEW b \in Nat, NEW d \in Nat \ {0}, a <= b
    PROVE  a \div d <= b \div d
<1>1. /\ a \div d \in Nat /\ (a \div d) * d <= a
      /\ b \div d \in Nat /\ b < ((b \div d) + 1) * d
  BY FloorDivision
<1>2. (a \div d) * d < ((b \div d) + 1) * d
  BY <1>1, SMT
<1>3. QED
  BY <1>1, <1>2, MultipleOrder

\* The cost of an amount does not fall when the price rises.
LEMMA CostMonotoneInPrice ==
    ASSUME NEW a \in Nat, NEW p \in Nat, NEW q \in Nat, p <= q
    PROVE  MultiplyScaled(a, p) <= MultiplyScaled(a, q)
<1>1. /\ a * p \in Nat
      /\ a * q \in Nat
      /\ a * p <= a * q
  BY SMT
<1>2. QED
  BY <1>1, DivisionMonotone, DecimalsAssumption DEF MultiplyScaled

\* Nor when the amount does.
LEMMA CostMonotoneInAmount ==
    ASSUME NEW a \in Nat, NEW b \in Nat, NEW p \in Nat, a <= b
    PROVE  MultiplyScaled(a, p) <= MultiplyScaled(b, p)
<1>1. /\ a * p \in Nat
      /\ b * p \in Nat
      /\ a * p <= b * p
  BY SMT
<1>2. QED
  BY <1>1, DivisionMonotone, DecimalsAssumption DEF MultiplyScaled

\* Two fragments rounded separately never cost more than the whole.
LEMMA CostSuperadditive ==
    ASSUME NEW a \in Nat, NEW b \in Nat, NEW p \in Nat
    PROVE  MultiplyScaled(a, p) + MultiplyScaled(b, p)
              <= MultiplyScaled(a + b, p)
<1> DEFINE x == MultiplyScaled(a, p)
           y == MultiplyScaled(b, p)
           z == MultiplyScaled(a + b, p)
<1>1. /\ a * p \in Nat
      /\ b * p \in Nat
      /\ (a + b) * p = a * p + b * p
  BY SMT
<1>2. /\ x \in Nat /\ x * Scale <= a * p
      /\ y \in Nat /\ y * Scale <= b * p
  BY <1>1, FloorDivision, DecimalsAssumption DEF MultiplyScaled
<1>3. z \in Nat /\ (a + b) * p < (z + 1) * Scale
  BY <1>1, FloorDivision, DecimalsAssumption DEF MultiplyScaled
<1> HIDE DEF x, y, z
<1>4. (x + y) * Scale < (z + 1) * Scale
  <2>1. (x + y) * Scale = x * Scale + y * Scale
    BY <1>2, DecimalsAssumption, SMT
  <2>2. /\ x * Scale \in Nat
        /\ y * Scale \in Nat
        /\ (z + 1) * Scale \in Nat
    BY <1>2, <1>3, DecimalsAssumption, SMT
  <2>3. QED
    BY <1>1, <1>2, <1>3, <2>1, <2>2, SMT
<1>5. x + y <= z
  BY <1>2, <1>3, <1>4, MultipleOrder, DecimalsAssumption, SMT
<1>6. QED
  BY <1>5 DEF x, y, z

\* A fee at a rate of at most one is at most what it is taken from.
LEMMA FeeAtMostGross ==
    ASSUME NEW x \in Nat, NEW rate \in 0..Scale
    PROVE  /\ MultiplyScaled(x, rate) \in Nat
           /\ MultiplyScaled(x, rate) <= x
<1>1. rate \in Nat /\ Scale \in Nat \ {0}
  BY DecimalsAssumption, SMT
<1>2. /\ x * rate \in Nat
      /\ x * rate <= x * Scale
  BY <1>1, SMT
<1>3. /\ MultiplyScaled(x, rate) \in Nat
      /\ MultiplyScaled(x, rate) * Scale <= x * rate
  BY <1>1, <1>2, FloorDivision DEF MultiplyScaled
<1>4. MultiplyScaled(x, rate) * Scale < (x + 1) * Scale
  BY <1>1, <1>2, <1>3, SMT
<1>5. QED
  BY <1>1, <1>3, <1>4, MultipleOrder

\* The reservation a fill uses up covers what the fill costs at any price
\* within the order's limit (buyReservationDebit), and does not exceed what
\* the order has reserved: price improvement and refund are never negative.
THEOREM DebitCoversExecution ==
    ASSUME NEW remaining \in Nat, NEW limit \in Nat,
           NEW amount \in 0..remaining, NEW price \in 0..limit
    PROVE  /\ MultiplyScaled(amount, price)
                 <= BuyReservationDebit(remaining, limit, amount)
           /\ BuyReservationDebit(remaining, limit, amount)
                 <= MultiplyScaled(remaining, limit)
<1> DEFINE rest == remaining - amount
<1>1. /\ amount \in Nat /\ rest \in Nat /\ price \in Nat
      /\ price <= limit
      /\ amount + rest = remaining
  BY SMT
<1>2. MultiplyScaled(amount, price) <= MultiplyScaled(amount, limit)
  BY <1>1, CostMonotoneInPrice
<1>3. MultiplyScaled(amount, limit) + MultiplyScaled(rest, limit)
         <= MultiplyScaled(remaining, limit)
  <2>1. MultiplyScaled(amount, limit) + MultiplyScaled(rest, limit)
           <= MultiplyScaled(amount + rest, limit)
    BY <1>1, CostSuperadditive
  <2>2. QED
    BY <1>1, <2>1
<1>4. /\ MultiplyScaled(amount, price) \in Nat
      /\ MultiplyScaled(amount, limit) \in Nat
      /\ MultiplyScaled(rest, limit) \in Nat
      /\ MultiplyScaled(remaining, limit) \in Nat
  BY <1>1, MultiplyScaledNat
<1>5. BuyReservationDebit(remaining, limit, amount)
         = MultiplyScaled(remaining, limit) - MultiplyScaled(rest, limit)
  BY DEF BuyReservationDebit
<1> HIDE DEF rest
<1>6. QED
  BY <1>2, <1>3, <1>4, <1>5, SMT

\* Rounding two fragments separately loses less than one unit more.
LEMMA CostNearlyAdditive ==
    ASSUME NEW a \in Nat, NEW b \in Nat, NEW p \in Nat
    PROVE  MultiplyScaled(a + b, p)
              <= MultiplyScaled(a, p) + MultiplyScaled(b, p) + 1
<1> DEFINE x == MultiplyScaled(a, p)
           y == MultiplyScaled(b, p)
           z == MultiplyScaled(a + b, p)
<1>1. /\ a * p \in Nat
      /\ b * p \in Nat
      /\ (a + b) * p = a * p + b * p
  BY SMT
<1>2. /\ x \in Nat /\ a * p < (x + 1) * Scale
      /\ y \in Nat /\ b * p < (y + 1) * Scale
  BY <1>1, FloorDivision, DecimalsAssumption DEF MultiplyScaled
<1>3. z \in Nat /\ z * Scale <= (a + b) * p
  BY <1>1, FloorDivision, DecimalsAssumption DEF MultiplyScaled
<1> HIDE DEF x, y, z
<1>4. z * Scale < ((x + y + 1) + 1) * Scale
  <2>1. ((x + y + 1) + 1) * Scale = (x + 1) * Scale + (y + 1) * Scale
    BY <1>2, DecimalsAssumption, SMT
  <2>2. /\ (x + 1) * Scale \in Nat
        /\ (y + 1) * Scale \in Nat
        /\ z * Scale \in Nat
    BY <1>2, <1>3, DecimalsAssumption, SMT
  <2> QED
    BY <1>1, <1>2, <1>3, <2>1, <2>2, SMT
<1>5. x + y + 1 \in Nat
  BY <1>2
<1>6. z <= x + y + 1
  BY <1>3, <1>4, <1>5, MultipleOrder, DecimalsAssumption, SMT
<1> QED
  BY <1>6 DEF x, y, z

-----------------------------------------------------------------------------
(* Sums, from the cardinality of their tokens: a bound B on the terms makes *)
(* the tokens a subset of a finite product *)

\* The tokens of bounded terms over a finite set are finitely many.
LEMMA TokensFinite ==
    ASSUME NEW S, IsFiniteSet(S), NEW B \in Nat,
           NEW f, \A x \in S : f[x] \in 0..B
    PROVE  /\ IsFiniteSet(Tokens(f, S))
           /\ SumOver(f, S) \in Nat
<1>1. IsFiniteSet(1..B)
  BY FS_Interval
<1>2. IsFiniteSet(S \X (1..B))
  BY <1>1, FS_Product
<1>3. Tokens(f, S) \subseteq S \X (1..B)
  <2>1. \A x \in S : (1..f[x]) \subseteq 1..B
    BY SMT
  <2>2. QED
    BY <2>1 DEF Tokens
<1>4. IsFiniteSet(Tokens(f, S))
  BY <1>2, <1>3, FS_Subset
<1>5. QED
  BY <1>4, FS_CardinalityType DEF SumOver

\* A sum depends on the terms only.
LEMMA SumCongruent ==
    ASSUME NEW S, NEW f, NEW g, \A x \in S : f[x] = g[x]
    PROVE  SumOver(f, S) = SumOver(g, S)
<1>1. Tokens(f, S) = Tokens(g, S)
  BY DEF Tokens
<1>2. QED
  BY <1>1 DEF SumOver

\* The empty sum.
LEMMA SumEmpty == \A f : SumOver(f, {}) = 0
<1>1. \A f : Tokens(f, {}) = {}
  BY DEF Tokens
<1>2. QED
  BY <1>1, FS_EmptySet DEF SumOver

\* One term has as many tokens as its value.
LEMMA TokensOfOne ==
    ASSUME NEW x, NEW n \in Nat
    PROVE  /\ IsFiniteSet({x} \X (1..n))
           /\ Cardinality({x} \X (1..n)) = n
<1>1. IsFiniteSet({x}) /\ Cardinality({x}) = 1
  BY FS_Singleton
<1>2. IsFiniteSet(1..n) /\ Cardinality(1..n) = n
  BY FS_Interval, SMT
<1>3. /\ IsFiniteSet({x} \X (1..n))
      /\ Cardinality({x} \X (1..n)) = Cardinality({x}) * Cardinality(1..n)
  BY <1>1, <1>2, FS_Product
<1>4. QED
  BY <1>1, <1>2, <1>3, SMT

\* One more element adds its term.
LEMMA SumAdd ==
    ASSUME NEW S, IsFiniteSet(S), NEW B \in Nat, NEW x, x \notin S,
           NEW f, \A y \in S : f[y] \in 0..B, f[x] \in 0..B
    PROVE  SumOver(f, S \cup {x}) = SumOver(f, S) + f[x]
<1> DEFINE one == {x} \X (1..f[x])
<1>1. f[x] \in Nat
  BY SMT
<1>2. IsFiniteSet(one) /\ Cardinality(one) = f[x]
  BY <1>1, TokensOfOne
<1>3. IsFiniteSet(Tokens(f, S)) /\ SumOver(f, S) \in Nat
  BY TokensFinite
<1>4. Tokens(f, S \cup {x}) = Tokens(f, S) \cup one
  BY DEF Tokens
<1>5. Tokens(f, S) \cap one = {}
  BY DEF Tokens
<1> HIDE DEF one
<1>6. Cardinality(Tokens(f, S) \cup one)
         = Cardinality(Tokens(f, S)) + Cardinality(one)
              - Cardinality(Tokens(f, S) \cap one)
  BY <1>2, <1>3, FS_Union
<1>7. Cardinality(Tokens(f, S) \cap one) = 0
  BY <1>5, FS_EmptySet
<1>8. /\ SumOver(f, S \cup {x}) = Cardinality(Tokens(f, S) \cup one)
      /\ SumOver(f, S) = Cardinality(Tokens(f, S))
  BY <1>4 DEF SumOver
<1>9. QED
  BY <1>1, <1>2, <1>3, <1>6, <1>7, <1>8

\* Changing one term changes the sum by the difference.
LEMMA SumUpdate ==
    ASSUME NEW S, IsFiniteSet(S), NEW B \in Nat, NEW x \in S, NEW f, NEW g,
           \A y \in S : f[y] \in 0..B /\ g[y] \in 0..B,
           \A y \in S \ {x} : f[y] = g[y]
    PROVE  /\ SumOver(f, S) \in Nat
           /\ SumOver(g, S) \in Nat
           /\ f[x] <= SumOver(f, S)
           /\ SumOver(g, S) = SumOver(f, S) - f[x] + g[x]
<1> DEFINE R == S \ {x}
<1>1. IsFiniteSet(R) /\ x \notin R /\ S = R \cup {x}
  BY FS_RemoveElement
<1>2. SumOver(f, R) \in Nat
  BY <1>1, TokensFinite
<1>3. SumOver(f, R) = SumOver(g, R)
  BY SumCongruent
<1> HIDE DEF R
<1>4. SumOver(f, R \cup {x}) = SumOver(f, R) + f[x]
  <2>1. \A y \in R \cup {x} : f[y] \in 0..B
    BY <1>1
  <2>2. QED
    BY <1>1, <2>1, SumAdd
<1>5. SumOver(g, R \cup {x}) = SumOver(g, R) + g[x]
  <2>1. \A y \in R \cup {x} : g[y] \in 0..B
    BY <1>1
  <2>2. QED
    BY <1>1, <2>1, SumAdd
<1>6. f[x] \in 0..B /\ g[x] \in 0..B
  OBVIOUS
<1>7. f[x] \in Nat /\ g[x] \in Nat
  BY <1>6
<1>8. QED
  BY <1>1, <1>2, <1>3, <1>4, <1>5, <1>7, SMT

\* A sum of equal terms.
LEMMA SumConstant ==
    ASSUME NEW S, IsFiniteSet(S), NEW c \in Nat, NEW f, \A x \in S : f[x] = c
    PROVE  SumOver(f, S) = Cardinality(S) * c
<1>1. Tokens(f, S) = S \X (1..c)
  BY DEF Tokens
<1>2. IsFiniteSet(1..c) /\ Cardinality(1..c) = c
  BY FS_Interval, SMT
<1>3. Cardinality(S \X (1..c)) = Cardinality(S) * Cardinality(1..c)
  BY <1>2, FS_Product
<1>4. QED
  BY <1>1, <1>2, <1>3 DEF SumOver

\* One more row adds its term to a sum that is otherwise the same.
LEMMA SumGrows ==
    ASSUME NEW S, IsFiniteSet(S), NEW x, x \notin S, NEW B \in Nat,
           NEW f, NEW g, \A y \in S : f[y] \in 0..B /\ g[y] = f[y],
           g[x] \in 0..B
    PROVE  /\ SumOver(f, S) \in Nat
           /\ SumOver(g, S \cup {x}) = SumOver(f, S) + g[x]
<1>1. SumOver(f, S) \in Nat
  BY TokensFinite
<1>2. SumOver(g, S) = SumOver(f, S)
  BY SumCongruent
<1>3. SumOver(g, S \cup {x}) = SumOver(g, S) + g[x]
  <2>1. \A y \in S : g[y] \in 0..B
    OBVIOUS
  <2>2. IsFiniteSet(S) /\ B \in Nat /\ x \notin S /\ g[x] \in 0..B
    OBVIOUS
  <2>3. QED
    BY ONLY <2>1, <2>2, SumAdd
<1>4. QED
  BY <1>1, <1>2, <1>3

-----------------------------------------------------------------------------
(* Induction over finite sets *)

\* Induction over the subsets of a finite set: a collection of them that has the
\* empty one, and each that has one element more than a member, has the whole.
LEMMA SetInduction ==
    ASSUME NEW S, IsFiniteSet(S), NEW Good,
           {} \in Good,
           \A T \in SUBSET S : \A x \in S \ T : T \in Good => T \cup {x} \in Good
    PROVE  S \in Good
<1> DEFINE R == StrictSubsetOrdering(S)
           Bad == (SUBSET S) \ Good
<1>1. SUFFICES ASSUME Bad # {} PROVE FALSE
  OBVIOUS
<1>2. IsWellFoundedOn(R, SUBSET S)
  BY FS_FiniteSubsetsOfFinite, FS_StrictSubsetOrderingWellFounded
<1>3. Bad \subseteq SUBSET S
  OBVIOUS
<1> HIDE DEF R, Bad
<1>4. PICK M : M \in Bad /\ \A U \in Bad : <<U, M>> \notin R
  BY <1>1, <1>2, <1>3, WFMin
<1>5. M \in SUBSET S /\ M \notin Good
  BY <1>4 DEF Bad
<1>6. M # {}
  BY <1>5
<1>7. PICK x \in M : TRUE
  BY <1>6
<1> DEFINE T == M \ {x}
<1>8. T \in SUBSET S /\ T # M /\ T \subseteq M /\ x \in S \ T /\ T \cup {x} = M
  BY <1>5, <1>7
<1>9. <<T, M>> \in R
  BY <1>5, <1>8 DEF R, StrictSubsetOrdering
<1> HIDE DEF T
<1>10. T \in Good
  BY <1>4, <1>8, <1>9 DEF Bad
<1> QED
  BY <1>5, <1>8, <1>10

-----------------------------------------------------------------------------
(* Comparing sums *)

\* More elements and larger terms make a larger sum.
LEMMA SumMonotone ==
    ASSUME NEW S, IsFiniteSet(S), NEW B \in Nat, NEW T \in SUBSET S,
           NEW f, NEW g, \A x \in S : g[x] \in 0..B,
           \A x \in T : f[x] \in Nat /\ f[x] <= g[x]
    PROVE  /\ SumOver(f, T) \in Nat
           /\ SumOver(g, S) \in Nat
           /\ SumOver(f, T) <= SumOver(g, S)
<1>1. IsFiniteSet(Tokens(g, S)) /\ SumOver(g, S) \in Nat
  BY TokensFinite
<1>2. Tokens(f, T) \subseteq Tokens(g, S)
  <2>1. \A x \in T : (1..f[x]) \subseteq 1..g[x]
    BY SMT
  <2> QED
    BY <2>1 DEF Tokens
<1>3. /\ IsFiniteSet(Tokens(f, T))
      /\ Cardinality(Tokens(f, T)) <= Cardinality(Tokens(g, S))
  BY <1>1, <1>2, FS_Subset
<1>4. Cardinality(Tokens(f, T)) \in Nat
  BY <1>3, FS_CardinalityType
<1> QED
  BY <1>1, <1>3, <1>4 DEF SumOver

\* Elements without a term do not count.
LEMMA SumOfSupport ==
    ASSUME NEW S, NEW T \in SUBSET S, NEW f, \A x \in S \ T : f[x] = 0
    PROVE  SumOver(f, S) = SumOver(f, T)
<1>1. \A x \in S \ T : 1..f[x] = {}
  BY SMT
<1>2. Tokens(f, S) = Tokens(f, T)
  BY <1>1 DEF Tokens
<1> QED
  BY <1>2 DEF SumOver

\* Terms that are all smaller make a smaller sum, of one term at least.
LEMMA SumLess ==
    ASSUME NEW S, IsFiniteSet(S), S # {}, NEW B \in Nat, NEW f, NEW g,
           \A x \in S : f[x] \in Nat /\ g[x] \in 0..B /\ f[x] < g[x]
    PROVE  /\ SumOver(f, S) \in Nat
           /\ SumOver(g, S) \in Nat
           /\ SumOver(f, S) < SumOver(g, S)
<1>1. PICK x : x \in S
  OBVIOUS
<1> DEFINE R == S \ {x}
<1>2. IsFiniteSet(R) /\ x \notin R /\ S = R \cup {x} /\ R \in SUBSET S
  BY <1>1, FS_RemoveElement
<1> HIDE DEF R
<1>3. \A y \in R : f[y] \in Nat /\ g[y] \in 0..B /\ f[y] <= g[y] /\ f[y] \in 0..B
  BY <1>2
<1>4. f[x] \in 0..B /\ g[x] \in 0..B /\ f[x] < g[x]
  BY <1>1
<1>5. /\ SumOver(f, R) \in Nat /\ SumOver(g, R) \in Nat
      /\ SumOver(f, R) <= SumOver(g, R)
  BY <1>2, <1>3, SumMonotone
<1>6. /\ SumOver(f, R \cup {x}) = SumOver(f, R) + f[x]
      /\ SumOver(g, R \cup {x}) = SumOver(g, R) + g[x]
  BY <1>2, <1>3, <1>4, SumAdd
<1> QED
  BY <1>2, <1>4, <1>5, <1>6

-----------------------------------------------------------------------------
(* Sums of sums *)

\* The sum of sums of two terms is the sum of their sums.
LEMMA SumOfPairs ==
    ASSUME NEW S, IsFiniteSet(S), NEW B \in Nat, NEW f, NEW g, NEW h,
           \A x \in S : /\ f[x] \in 0..B /\ g[x] \in 0..B
                        /\ h[x] = f[x] + g[x]
    PROVE  /\ SumOver(f, S) \in Nat /\ SumOver(g, S) \in Nat
           /\ SumOver(h, S) = SumOver(f, S) + SumOver(g, S)
<1> DEFINE Good == {T \in SUBSET S : SumOver(h, T) = SumOver(f, T) + SumOver(g, T)}
<1>1. {} \in Good
  BY SumEmpty
<1>2. ASSUME NEW T \in SUBSET S, NEW x \in S \ T, T \in Good
      PROVE  T \cup {x} \in Good
  <2>1. IsFiniteSet(T) /\ B + B \in Nat
    BY FS_Subset
  <2>2. \A y \in T \cup {x} :
           /\ f[y] \in 0..B /\ g[y] \in 0..B /\ h[y] \in 0..(B + B)
           /\ h[y] = f[y] + g[y]
    OBVIOUS
  <2>9. /\ x \notin T
        /\ \A y \in T : f[y] \in 0..B /\ g[y] \in 0..B /\ h[y] \in 0..(B + B)
        /\ f[x] \in 0..B /\ g[x] \in 0..B /\ h[x] \in 0..(B + B)
    BY <2>2
  <2>3. SumOver(f, T) \in Nat /\ SumOver(g, T) \in Nat
    BY <2>1, <2>2, TokensFinite
  <2>4. /\ SumOver(f, T \cup {x}) = SumOver(f, T) + f[x]
        /\ SumOver(g, T \cup {x}) = SumOver(g, T) + g[x]
    <3>a. IsFiniteSet(T) /\ B \in Nat /\ x \notin T
      BY <2>1, <2>9
    <3>b. f[x] \in 0..B /\ \A y \in T : f[y] \in 0..B
      BY ONLY <2>9
    <3>c. g[x] \in 0..B /\ \A y \in T : g[y] \in 0..B
      BY ONLY <2>9
    <3>1. SumOver(f, T \cup {x}) = SumOver(f, T) + f[x]
      BY ONLY <3>a, <3>b, SumAdd
    <3>2. SumOver(g, T \cup {x}) = SumOver(g, T) + g[x]
      BY ONLY <3>a, <3>c, SumAdd
    <3> QED
      BY ONLY <3>1, <3>2
  <2>5. SumOver(h, T \cup {x}) = SumOver(h, T) + h[x]
    BY ONLY <2>1, <2>9, SumAdd
  <2>6. SumOver(h, T) = SumOver(f, T) + SumOver(g, T)
    BY <1>2
  <2>7. h[x] = f[x] + g[x] /\ f[x] \in Nat /\ g[x] \in Nat
    BY <2>2
  <2> HIDE DEF Good
  <2>8. SumOver(h, T \cup {x}) = SumOver(f, T \cup {x}) + SumOver(g, T \cup {x})
    BY <2>3, <2>4, <2>5, <2>6, <2>7
  <2> QED
    BY <2>8 DEF Good
<1> HIDE DEF Good
<1>3. S \in Good
  BY <1>1, <1>2, SetInduction
<1> QED
  BY <1>3, TokensFinite DEF Good

\* Adding up part by part gives the whole: part[x] is the part that x is in.
LEMMA SumOfParts ==
    ASSUME NEW S, IsFiniteSet(S), NEW P, IsFiniteSet(P), NEW B \in Nat,
           NEW f, \A x \in S : f[x] \in 0..B,
           NEW part, \A x \in S : part[x] \in P
    PROVE  /\ SumOver(f, S) \in Nat
           /\ SumOver([k \in P |-> SumOver(f, {x \in S : part[x] = k})], P)
                 = SumOver(f, S)
<1> DEFINE Parts(T) == [k \in P |-> SumOver(f, {x \in T : part[x] = k})]
           Good == {T \in SUBSET S : SumOver(Parts(T), P) = SumOver(f, T)}
<1>1. {} \in Good
  <2>1. \A k \in P : {x \in {} : part[x] = k} = {}
    OBVIOUS
  <2>2. \A k \in P : Parts({})[k] = 0
    BY <2>1, SumEmpty
  <2> HIDE DEF Parts
  <2>3. SumOver(Parts({}), P) = SumOver(Parts({}), {})
    BY <2>2, SumOfSupport
  <2> QED
    BY <2>3, SumEmpty
<1>2. ASSUME NEW T \in SUBSET S, NEW x \in S \ T, T \in Good
      PROVE  T \cup {x} \in Good
  <2> DEFINE old == Parts(T)
             new == Parts(T \cup {x})
             C == SumOver(f, S)
  <2>1. IsFiniteSet(T) /\ IsFiniteSet(T \cup {x}) /\ C \in Nat /\ part[x] \in P
    BY FS_Subset, TokensFinite
  <2>2. \A U \in SUBSET S : SumOver(f, U) \in 0..C
    <3>1. \A U \in SUBSET S : SumOver(f, U) \in Nat /\ SumOver(f, U) <= C
      BY SumMonotone
    <3> QED
      BY <2>1, <3>1
  <2>3. \A k \in P : old[k] \in 0..C /\ new[k] \in 0..C
    BY <2>2
  <2>4. \A k \in P \ {part[x]} : old[k] = new[k]
    <3>1. \A k \in P \ {part[x]} :
            {y \in T \cup {x} : part[y] = k} = {y \in T : part[y] = k}
      OBVIOUS
    <3> QED
      BY <3>1
  <2>5. new[part[x]] = old[part[x]] + f[x]
    <3> DEFINE Q == {y \in T : part[y] = part[x]}
    <3>1. {y \in T \cup {x} : part[y] = part[x]} = Q \cup {x}
      OBVIOUS
    <3>2. IsFiniteSet(Q) /\ x \notin Q /\ Q \in SUBSET S
      BY <2>1, FS_Subset
    <3>3. new[part[x]] = SumOver(f, Q \cup {x}) /\ old[part[x]] = SumOver(f, Q)
      BY <2>1, <3>1
    <3> HIDE DEF Q, new, old
    <3>4. SumOver(f, Q \cup {x}) = SumOver(f, Q) + f[x]
      BY <3>2, SumAdd
    <3> QED
      BY <3>3, <3>4
  <2> HIDE DEF old, new, C
  <2>6. /\ SumOver(old, P) \in Nat
        /\ SumOver(new, P) = SumOver(old, P) - old[part[x]] + new[part[x]]
    <3>1. PICK k \in P : k = part[x]
      BY <2>1
    <3>2. C \in Nat /\ \A j \in P : old[j] \in 0..C /\ new[j] \in 0..C
      BY <2>1, <2>3
    <3>3. \A j \in P \ {k} : old[j] = new[j]
      BY <2>4, <3>1
    <3>4. /\ SumOver(old, P) \in Nat
          /\ SumOver(new, P) = SumOver(old, P) - old[k] + new[k]
      BY ONLY <3>2, <3>3, k \in P, IsFiniteSet(P), SumUpdate
    <3> QED
      BY <3>1, <3>4
  <2>7. SumOver(f, T \cup {x}) = SumOver(f, T) + f[x]
    <3>1. B \in Nat /\ x \notin T /\ f[x] \in 0..B /\ \A y \in T : f[y] \in 0..B
      OBVIOUS
    <3> QED
      BY ONLY <2>1, <3>1, SumAdd
  <2>8. SumOver(old, P) = SumOver(f, T)
    BY <1>2 DEF old
  <2>9. old[part[x]] \in Int /\ f[x] \in Int
    BY <2>1, <2>3
  <2>10. SumOver(new, P) = SumOver(f, T \cup {x})
    BY <2>5, <2>6, <2>7, <2>8, <2>9
  <2> QED
    BY <2>10 DEF new
<1> HIDE DEF Good
<1>3. S \in Good
  BY <1>1, <1>2, SetInduction
<1> QED
  BY <1>3, TokensFinite DEF Good

\* The cost of a sum of amounts exceeds the sum of their costs by less than a
\* unit for each of them.
LEMMA CostOfSum ==
    ASSUME NEW S, IsFiniteSet(S), S # {}, NEW B \in Nat, NEW p \in Nat,
           NEW f, \A x \in S : f[x] \in 0..B,
           NEW cost, \A x \in S : cost[x] = MultiplyScaled(f[x], p)
    PROVE  MultiplyScaled(SumOver(f, S), p)
              < SumOver(cost, S) + Cardinality(S)
<1> DEFINE C == MultiplyScaled(B, p)
           Near(T) == MultiplyScaled(SumOver(f, T), p)
                         < SumOver(cost, T) + Cardinality(T)
           Good == {T \in SUBSET S : T = {} \/ Near(T)}
<1>1. C \in Nat /\ \A x \in S : f[x] \in Nat /\ cost[x] \in Nat /\ cost[x] \in 0..C
  <2>1. C \in Nat
    BY MultiplyScaledNat
  <2>2. ASSUME NEW x \in S
        PROVE  f[x] \in Nat /\ cost[x] \in Nat /\ cost[x] <= C
    <3>1. f[x] \in Nat /\ f[x] <= B
      OBVIOUS
    <3>2. cost[x] = MultiplyScaled(f[x], p)
      OBVIOUS
    <3>3. MultiplyScaled(f[x], p) \in Nat
      BY ONLY <3>1, p \in Nat, MultiplyScaledNat
    <3>4. PICK a \in Nat : a = f[x]
      BY ONLY <3>1
    <3>5. MultiplyScaled(a, p) <= MultiplyScaled(B, p)
      BY ONLY <3>1, <3>4, B \in Nat, p \in Nat, CostMonotoneInAmount
    <3> QED
      BY ONLY <3>1, <3>2, <3>3, <3>4, <3>5 DEF C
  <2> HIDE DEF C
  <2> QED
    BY <2>1, <2>2
<1> HIDE DEF C
<1>2. ASSUME NEW T \in SUBSET S, NEW x \in S \ T, T \in Good
      PROVE  T \cup {x} \in Good
  <2>1. IsFiniteSet(T) /\ Cardinality(T) \in Nat /\ x \notin T
        /\ Cardinality(T \cup {x}) = Cardinality(T) + 1
    BY FS_Subset, FS_CardinalityType, FS_AddElement
  <2>2. /\ \A y \in T : f[y] \in 0..B /\ cost[y] \in 0..C
        /\ f[x] \in 0..B /\ cost[x] \in 0..C
        /\ f[x] \in Nat /\ cost[x] \in Nat
        /\ cost[x] = MultiplyScaled(f[x], p)
    BY <1>1
  <2>3. SumOver(f, T) \in Nat /\ SumOver(cost, T) \in Nat
    BY ONLY <1>1, <2>1, <2>2, B \in Nat, TokensFinite
  <2>4. /\ SumOver(f, T \cup {x}) = SumOver(f, T) + f[x]
        /\ SumOver(cost, T \cup {x}) = SumOver(cost, T) + cost[x]
    BY ONLY <1>1, <2>1, <2>2, B \in Nat, SumAdd
  <2>5. CASE T = {}
    <3>1. SumOver(f, T) = 0 /\ SumOver(cost, T) = 0 /\ Cardinality(T) = 0
      BY <2>5, SumEmpty, FS_EmptySet
    <3>2. Near(T \cup {x})
      BY <2>1, <2>2, <2>4, <3>1
    <3> HIDE DEF Near
    <3> QED
      BY <3>2
  <2>6. CASE Near(T)
    <3> DEFINE m == MultiplyScaled(SumOver(f, T), p)
               n == MultiplyScaled(SumOver(f, T) + f[x], p)
    <3>1. m \in Nat /\ n \in Nat /\ n <= m + cost[x] + 1
      <4>1. SumOver(f, T) + f[x] \in Nat
        BY <2>2, <2>3
      <4> QED
        BY <2>2, <2>3, <4>1, MultiplyScaledNat, CostNearlyAdditive
    <3>2. m < SumOver(cost, T) + Cardinality(T)
      BY <2>6
    <3> HIDE DEF m, n
    <3>3. n < SumOver(cost, T \cup {x}) + Cardinality(T \cup {x})
      BY <2>1, <2>2, <2>3, <2>4, <3>1, <3>2
    <3>4. Near(T \cup {x})
      BY <2>4, <3>3 DEF n
    <3> HIDE DEF Near
    <3> QED
      BY <3>4
  <2> QED
    BY <1>2, <2>5, <2>6
<1>3. {} \in Good
  OBVIOUS
<1> HIDE DEF Good
<1>4. S \in Good
  BY <1>2, <1>3, SetInduction
<1> QED
  BY <1>4 DEF Good

\* Two parts that share nothing.
LEMMA SumDisjoint ==
    ASSUME NEW S, NEW T, IsFiniteSet(S), IsFiniteSet(T), S \cap T = {},
           NEW R, R = S \cup T, NEW B \in Nat, NEW f, \A x \in R : f[x] \in 0..B
    PROVE  /\ SumOver(f, S) \in Nat /\ SumOver(f, T) \in Nat
           /\ SumOver(f, R) = SumOver(f, S) + SumOver(f, T)
<1>1. /\ IsFiniteSet(Tokens(f, S)) /\ SumOver(f, S) \in Nat
  <2>1. \A x \in S : f[x] \in 0..B
    OBVIOUS
  <2> QED
    BY ONLY <2>1, IsFiniteSet(S), B \in Nat, TokensFinite
<1>2. /\ IsFiniteSet(Tokens(f, T)) /\ SumOver(f, T) \in Nat
  <2>1. \A x \in T : f[x] \in 0..B
    OBVIOUS
  <2> QED
    BY ONLY <2>1, IsFiniteSet(T), B \in Nat, TokensFinite
<1>3. Tokens(f, R) = Tokens(f, S) \cup Tokens(f, T)
  BY DEF Tokens
<1>4. Tokens(f, S) \cap Tokens(f, T) = {}
  <2>1. \A s, t : s \in Tokens(f, S) /\ t \in Tokens(f, T) => s # t
    BY DEF Tokens
  <2> QED
    BY <2>1
<1>5. Cardinality(Tokens(f, S) \cup Tokens(f, T))
         = Cardinality(Tokens(f, S)) + Cardinality(Tokens(f, T)) - 0
  BY <1>1, <1>2, <1>4, FS_Union, FS_EmptySet
<1>6. /\ SumOver(f, R) = Cardinality(Tokens(f, S) \cup Tokens(f, T))
      /\ SumOver(f, S) = Cardinality(Tokens(f, S))
      /\ SumOver(f, T) = Cardinality(Tokens(f, T))
  BY <1>3 DEF SumOver
<1> QED
  BY ONLY <1>1, <1>2, <1>5, <1>6

\* Renaming the elements one to one keeps the sum.
LEMMA SumRenamed ==
    ASSUME NEW S, IsFiniteSet(S), NEW R, NEW B \in Nat,
           NEW f, NEW g, NEW name,
           \A x \in S : f[x] \in 0..B /\ g[name[x]] = f[x] /\ name[x] \in R,
           \A y \in R : \E x \in S : y = name[x],
           \A x, y \in S : x # y => name[x] # name[y]
    PROVE  /\ IsFiniteSet(R)
           /\ SumOver(g, R) = SumOver(f, S)
<1> DEFINE Named(T) == {name[x] : x \in T}
           Good == {T \in SUBSET S : /\ IsFiniteSet(Named(T))
                                     /\ SumOver(g, Named(T)) = SumOver(f, T)}
<1>1. {} \in Good
  <2>1. Named({}) = {}
    OBVIOUS
  <2> QED
    BY <2>1, SumEmpty, FS_EmptySet
<1>2. ASSUME NEW T \in SUBSET S, NEW x \in S \ T, T \in Good
      PROVE  T \cup {x} \in Good
  <2>1. /\ Named(T \cup {x}) = Named(T) \cup {name[x]}
        /\ name[x] \notin Named(T)
        /\ \A z \in Named(T) : g[z] \in 0..B
        /\ g[name[x]] \in 0..B /\ f[x] \in 0..B /\ g[name[x]] = f[x]
        /\ x \notin T /\ \A y \in T : f[y] \in 0..B
    OBVIOUS
  <2>2. IsFiniteSet(T) /\ IsFiniteSet(Named(T)) /\ B \in Nat
    BY <1>2, FS_Subset
  <2>3. SumOver(g, Named(T)) = SumOver(f, T)
    BY <1>2
  <2> HIDE DEF Named, Good
  <2>4. SumOver(f, T \cup {x}) = SumOver(f, T) + f[x]
    BY ONLY <2>1, <2>2, SumAdd
  <2>5. SumOver(g, Named(T) \cup {name[x]}) = SumOver(g, Named(T)) + g[name[x]]
    BY ONLY <2>1, <2>2, SumAdd
  <2>6. IsFiniteSet(Named(T) \cup {name[x]})
    BY <2>2, FS_AddElement
  <2> QED
    BY <2>1, <2>3, <2>4, <2>5, <2>6 DEF Good
<1> HIDE DEF Good
<1>3. S \in Good
  BY <1>1, <1>2, SetInduction
<1>4. Named(S) = R
  OBVIOUS
<1> QED
  BY <1>3, <1>4 DEF Good

\* A list without repetitions has as many members as places.
LEMMA CountOfList ==
    ASSUME NEW n \in Nat, NEW list,
           \A i, j \in 1..n : i # j => list[i] # list[j]
    PROVE  /\ IsFiniteSet({list[i] : i \in 1..n})
           /\ Cardinality({list[i] : i \in 1..n}) = n
<1> DEFINE S == {list[i] : i \in 1..n}
           f == [i \in 1..n |-> 1]
           g == [s \in S |-> 1]
<1>1. IsFiniteSet(1..n) /\ Cardinality(1..n) = n
  BY FS_Interval, SMT
<1>2. /\ \A i \in 1..n : f[i] \in 0..1 /\ g[list[i]] = f[i]
      /\ \A i \in 1..n : f[i] = 1
      /\ \A s \in S : g[s] = 1
  OBVIOUS
<1> HIDE DEF f, g
<1>3. 1 \in Nat
  OBVIOUS
<1>4. /\ IsFiniteSet(S)
      /\ SumOver(g, S) = SumOver(f, 1..n)
  <2> DEFINE I == 1..n
  <2>1. /\ IsFiniteSet(I)
        /\ \A i \in I : f[i] \in 0..1 /\ g[list[i]] = f[i] /\ list[i] \in S
        /\ \A s \in S : \E i \in I : s = list[i]
        /\ \A i, j \in I : i # j => list[i] # list[j]
    BY <1>1, <1>2
  <2> HIDE DEF I, S
  <2>2. /\ IsFiniteSet(S)
        /\ SumOver(g, S) = SumOver(f, I)
    BY ONLY <2>1, <1>3, SumRenamed
  <2> QED
    BY <2>2 DEF I
<1>5. IsFiniteSet(S)
  BY <1>4
<1> HIDE DEF S
<1>6. SumOver(f, 1..n) = n * 1
  BY ONLY <1>1, <1>2, <1>3, SumConstant
<1>7. SumOver(g, S) = Cardinality(S) * 1 /\ Cardinality(S) \in Nat
  BY ONLY <1>2, <1>3, <1>5, SumConstant, FS_CardinalityType
<1> QED
  BY <1>4, <1>5, <1>6, <1>7 DEF S

-----------------------------------------------------------------------------
(* Types and row locks *)

\* The type invariant is inductive only together with the lock discipline: a
\* drafted row is well-typed because the row under it has not changed.
Locked == TypeOK /\ LockDiscipline


LEMMA MoneyNat == 0 \in Money /\ Money \subseteq Nat
BY DecimalsAssumption DEF Money

\* Rows are numbered from one.
LEMMA OrderRows ==
    ASSUME TypeOK
    PROVE  /\ Len(orders) \in Nat
           /\ DOMAIN orders = 1..Len(orders)
           /\ \A o \in DOMAIN orders : o \in Nat /\ orders[o] \in Order
BY DEF TypeOK

\* A step of the transaction that writes nothing.
LEMMA TxStepTypeOK ==
    ASSUME TypeOK, tx' \in Transaction,
           UNCHANGED <<orders, wallets, trades, matchingIntents,
                       realtimeOutbox, cancels, draft>>
    PROVE  TypeOK'
BY DEF TypeOK

LEMMA NoDraftedOrders == DOMAIN NoWrites.orders = {}
<1>1. NoWrites.orders = << >>
  BY DEF NoWrites
<1>2. QED
  BY <1>1

LEMMA IdleType == Idle \in Transaction
BY MoneyNat DEF Idle, Transaction, Phases

LEMMA UndoLocked ==
    ASSUME Locked, Undo
    PROVE  Locked'
<1> USE DEF Undo
<1>1. TypeOK'
  BY IdleType DEF Locked, TypeOK, NoWrites
<1>2. LockDiscipline'
  BY DEF Locked, LockDiscipline, CancelsHeld, TakerHeld, CursorHeld,
         MakersHeld, DraftHeld, Idle, NoWrites
<1>3. QED
  BY <1>1, <1>2 DEF Locked

LEMMA LockMarketLocked ==
    ASSUME Locked, NEW o \in DOMAIN orders, NEW phase \in {"process", "reject"},
           LockMarket(o, phase)
    PROVE  Locked'
<1> USE DEF LockMarket
<1>1. tx' \in Transaction
  <2>1. o \in Nat
    BY OrderRows DEF Locked
  <2>2. QED
    BY <2>1, IdleType DEF Idle, Transaction, Phases
<1>2. TypeOK'
  BY <1>1, TxStepTypeOK DEF Locked
<1>3. LockDiscipline'
  BY DEF Locked, LockDiscipline, CancelsHeld, TakerHeld, CursorHeld,
         MakersHeld, DraftHeld, Idle
<1>4. QED
  BY <1>2, <1>3 DEF Locked

LEMMA SkipProcessedLocked ==
    ASSUME Locked, SkipProcessed
    PROVE  Locked'
<1> USE DEF SkipProcessed
<1>1. TypeOK'
  BY IdleType, TxStepTypeOK DEF Locked
<1>2. LockDiscipline'
  BY DEF Locked, LockDiscipline, CancelsHeld, TakerHeld, CursorHeld,
         MakersHeld, DraftHeld, Idle
<1>3. QED
  BY <1>1, <1>2 DEF Locked

LEMMA LockTakerLocked ==
    ASSUME Locked, LockTaker
    PROVE  Locked'
<1> USE DEF LockTaker
<1>0. tx.taker \in DOMAIN orders /\ tx.taker \in Nat /\ Taker \in Order
  BY OrderRows DEF Locked, LockDiscipline, TakerHeld, Taker
<1>1. tx' \in Transaction
  BY <1>0 DEF Locked, TypeOK, Transaction, Phases, Order
<1>2. TypeOK'
  BY <1>1, TxStepTypeOK DEF Locked
<1>3. LockDiscipline'
  <2> USE DEF Locked, TypeOK, LockDiscipline, Transaction
  <2>1. CancelsHeld'
    BY DEF CancelsHeld
  <2>2. TakerHeld'
    BY <1>0, MoneyNat DEF TakerHeld, Taker, Order
  <2>3. CursorHeld'
    BY <1>0 DEF CursorHeld
  <2>4. MakersHeld'
    BY DEF MakersHeld, CursorHeld
  <2>5. DraftHeld'
    <3>1. draft = NoWrites /\ draft' = NoWrites
      BY DEF DraftHeld
    <3>2. DOMAIN draft'.orders = {}
      BY <3>1, NoDraftedOrders
    <3>3. QED
      BY <3>1, <3>2 DEF DraftHeld
  <2>6. QED
    BY <2>1, <2>2, <2>3, <2>4, <2>5
<1>4. QED
  BY <1>2, <1>3 DEF Locked

LEMMA EndSelectionLocked ==
    ASSUME Locked, EndSelection
    PROVE  Locked'
<1> USE DEF EndSelection
<1>1. tx' \in Transaction
  BY DEF Locked, TypeOK, Transaction, Phases
<1>2. TypeOK'
  BY <1>1, TxStepTypeOK DEF Locked
<1>3. LockDiscipline'
  <2> USE DEF Locked, TypeOK, LockDiscipline, Transaction
  <2>1. CancelsHeld'
    BY DEF CancelsHeld
  <2>2. TakerHeld'
    BY DEF TakerHeld, Taker
  <2>3. CursorHeld'
    BY DEF CursorHeld
  <2>4. MakersHeld'
    BY DEF MakersHeld, Taker
  <2>5. DraftHeld'
    BY DEF DraftHeld, NoWrites
  <2>6. QED
    BY <2>1, <2>2, <2>3, <2>4, <2>5
<1>4. QED
  BY <1>2, <1>3 DEF Locked

LEMMA SkipDustLocked ==
    ASSUME Locked, SkipDust
    PROVE  Locked'
<1> USE DEF SkipDust, Settling
<1>0. /\ tx.makers \in Seq(Maker)
      /\ Tail(tx.makers) \in Seq(Maker)
      /\ DOMAIN Tail(tx.makers) = 1..(Len(tx.makers) - 1)
      /\ \A i \in DOMAIN Tail(tx.makers) :
            i + 1 \in DOMAIN tx.makers /\ Tail(tx.makers)[i] = tx.makers[i + 1]
  BY DEF Locked, TypeOK, Transaction
<1>1. tx' \in Transaction
  BY <1>0 DEF Locked, TypeOK, Transaction, Phases
<1>2. TypeOK'
  BY <1>1, TxStepTypeOK DEF Locked
<1>3. LockDiscipline'
  <2> USE DEF Locked, TypeOK, LockDiscipline, Transaction
  <2>1. CancelsHeld'
    BY DEF CancelsHeld
  <2>2. TakerHeld'
    BY DEF TakerHeld, Taker
  <2>3. CursorHeld'
    BY DEF CursorHeld
  <2>4. MakersHeld'
    <3>1. MakersHeld
      OBVIOUS
    <3>2. /\ tx' = [tx EXCEPT !.makers = Tail(tx.makers)]
          /\ tx.phase = "settle" /\ tx'.phase = "settle"
          /\ tx'.taker = tx.taker /\ tx'.locks = tx.locks
          /\ tx'.makers = Tail(tx.makers)
          /\ orders' = orders /\ draft' = draft
      OBVIOUS
    <3>3. \A i \in DOMAIN tx'.makers : /\ i \in Int
                                      /\ i + 1 \in DOMAIN tx.makers
                                      /\ tx'.makers[i] = tx.makers[i + 1]
      BY <1>0, <3>2
    <3> HIDE DEF SkipDust, Settling, Locked, TypeOK, LockDiscipline, Transaction
    <3>4. ASSUME NEW i \in DOMAIN tx'.makers, NEW j \in DOMAIN tx'.makers,
                 tx'.makers[i].id = tx'.makers[j].id
          PROVE  i = j
      <4>1. i + 1 = j + 1
        BY <3>1, <3>3, <3>4 DEF MakersHeld
      <4>2. QED
        BY <3>3, <4>1
    <3>5. QED
      BY <3>1, <3>2, <3>3, <3>4 DEF MakersHeld, Taker
  <2>5. DraftHeld'
    BY DEF DraftHeld
  <2>6. QED
    BY <2>1, <2>2, <2>3, <2>4, <2>5
<1>4. QED
  BY <1>2, <1>3 DEF Locked

\* Best first is a strict order.
LEMMA AheadOrder ==
    ASSUME TypeOK, NEW side \in Side, NEW a \in DOMAIN orders,
           NEW b \in DOMAIN orders, NEW c \in DOMAIN orders
    PROVE  /\ ~Ahead(orders, side, a, a)
           /\ Ahead(orders, side, a, b) /\ Ahead(orders, side, b, c)
                => Ahead(orders, side, a, c)
<1>1. /\ a \in Nat /\ b \in Nat /\ c \in Nat
      /\ orders[a] \in Order /\ orders[b] \in Order /\ orders[c] \in Order
  BY OrderRows
<1>2. orders[a].price \in Nat /\ orders[b].price \in Nat /\ orders[c].price \in Nat
  BY <1>1, MoneyNat DEF Order
<1>3. QED
  BY <1>1, <1>2, SMT DEF Ahead, Side

\* In the phases of matching the taker is a row of the table.
LEMMA TakerRow ==
    ASSUME Locked, tx.phase # "idle"
    PROVE  /\ tx.taker \in DOMAIN orders /\ tx.taker \in Nat
           /\ Taker = orders[tx.taker] /\ Taker \in Order
           /\ Taker.side \in Side /\ Taker.userId \in Users
           /\ Taker.price \in Money /\ Taker.remainingAmount \in Money
BY OrderRows DEF Locked, LockDiscipline, TakerHeld, Taker, Order

LEMMA FindCandidateLocked ==
    ASSUME Locked, FindCandidate
    PROVE  Locked'
<1> USE DEF FindCandidate
<1>0. PICK c \in Candidates : tx' = [tx EXCEPT !.phase = "lock", !.cursor = c]
  OBVIOUS
<1>a. /\ c \in DOMAIN orders /\ c \in Nat /\ c # 0
      /\ Opposes(Taker, orders[c])
      /\ tx.cursor # 0 => Ahead(orders, Taker.side, tx.cursor, c)
  BY OrderRows DEF Candidates, Locked
<1>b. Taker.side \in Side
  BY TakerRow
<1>c. /\ tx \in Transaction
      /\ tx'.phase = "lock" /\ tx'.cursor = c
      /\ tx'.taker = tx.taker /\ tx'.remaining = tx.remaining
      /\ tx'.makers = tx.makers /\ tx'.locks = tx.locks
      /\ orders' = orders /\ cancels' = cancels /\ draft' = draft
      /\ tx' \in Transaction
  BY <1>0, <1>a DEF Locked, TypeOK, Transaction, Phases
<1>1. TypeOK'
  BY <1>c, TxStepTypeOK DEF Locked
<1>2. LockDiscipline'
  <2> USE DEF Locked, LockDiscipline
  <2>1. CancelsHeld'
    BY <1>c DEF CancelsHeld
  <2>2. TakerHeld'
    BY <1>c DEF TakerHeld, Taker
  <2>3. CursorHeld'
    BY <1>c, <1>a DEF CursorHeld, Taker
  <2>4. MakersHeld'
    <3>1. ASSUME NEW i \in DOMAIN tx.makers
          PROVE  Ahead(orders, Taker.side, tx.makers[i].id, c)
      <4>1. tx.cursor # 0 /\ tx.cursor \in DOMAIN orders
        BY DEF CursorHeld
      <4>2. tx.makers[i].id \in DOMAIN orders
        BY DEF MakersHeld, CursorHeld
      <4>3. \/ tx.makers[i].id = tx.cursor
            \/ Ahead(orders, Taker.side, tx.makers[i].id, tx.cursor)
        BY DEF MakersHeld
      <4>4. QED
        BY <4>1, <4>2, <4>3, <1>a, <1>b, AheadOrder
    <3>2. QED
      BY <3>1, <1>c DEF MakersHeld, Taker
  <2>5. DraftHeld'
    BY <1>c DEF DraftHeld
  <2>6. QED
    BY <2>1, <2>2, <2>3, <2>4, <2>5
<1>3. QED
  BY <1>1, <1>2 DEF Locked

\* A maker covers part of what is left to cover.
LEMMA CoverType ==
    ASSUME NEW left \in Money, NEW amount \in Money, NEW price \in Money
    PROVE  left - Cover(Lesser(left, amount), price) \in Money
BY DecimalsAssumption, SMT DEF Cover, Lesser, Money

LEMMA LockCandidateLocked ==
    ASSUME Locked, LockCandidate
    PROVE  Locked'
<1> DEFINE c == tx.cursor
           maker == orders[c]
           found == [id |-> c, remainingAmount |-> maker.remainingAmount]
<1> USE DEF LockCandidate
<1>a. /\ c \in DOMAIN orders /\ c \in Nat /\ c # 0
      /\ maker \in Order /\ maker.remainingAmount \in Money
      /\ maker.price \in Money
      /\ found \in Maker /\ found.id = c
      /\ found.remainingAmount = maker.remainingAmount
  BY OrderRows DEF Locked, LockDiscipline, CursorHeld, Order, Maker
<1>b. Taker.side \in Side
  BY TakerRow
<1>c. /\ tx \in Transaction /\ tx.makers \in Seq(Maker)
      /\ tx.phase = "lock" /\ c \notin DOMAIN cancels
      /\ tx'.phase = "select" /\ tx'.cursor = c
      /\ tx'.taker = tx.taker /\ tx'.remaining = tx.remaining
      /\ tx'.locks = tx.locks \cup {c}
      /\ orders' = orders /\ cancels' = cancels /\ draft' = draft
  BY DEF Locked, TypeOK, Transaction
<1>d. /\ IsEligibleMaker(Taker, maker) => tx'.makers = Append(tx.makers, found)
      /\ ~IsEligibleMaker(Taker, maker) => tx'.makers = tx.makers
  BY DEF Locked, TypeOK, Transaction
<1>e. tx' \in Transaction
  <2>1. tx.toCover - Cover(Lesser(tx.toCover, maker.remainingAmount), maker.price)
           \in Money
    BY <1>a, <1>c, CoverType DEF Transaction
  <2>2. Append(tx.makers, found) \in Seq(Maker)
    BY <1>a, <1>c
  <2>3. QED
    BY <1>a, <2>1, <2>2 DEF Locked, TypeOK, Transaction, Phases
<1>1. TypeOK'
  BY <1>e, TxStepTypeOK DEF Locked
<1>2. LockDiscipline'
  <2> USE DEF Locked, LockDiscipline
  <2>1. CancelsHeld'
    BY <1>c DEF CancelsHeld
  <2>2. TakerHeld'
    BY <1>c DEF TakerHeld, Taker
  <2>3. CursorHeld'
    BY <1>c, <1>a DEF CursorHeld
  <2>4. MakersHeld'
    <3>1. \A i \in DOMAIN tx.makers :
             tx.makers[i].id \in DOMAIN orders /\ tx.makers[i].id # c
      BY <1>a, <1>b, <1>c, AheadOrder DEF MakersHeld, CursorHeld
    <3>2. CASE ~IsEligibleMaker(Taker, maker)
      BY <3>1, <3>2, <1>a, <1>c, <1>d DEF MakersHeld, Taker
    <3>3. CASE IsEligibleMaker(Taker, maker)
      <4>1. /\ DOMAIN tx'.makers = 1..(Len(tx.makers) + 1)
            /\ DOMAIN tx.makers = 1..Len(tx.makers)
            /\ Len(tx.makers) \in Nat
            /\ tx'.makers[Len(tx.makers) + 1] = found
            /\ \A i \in DOMAIN tx.makers : tx'.makers[i] = tx.makers[i]
        BY <3>3, <1>a, <1>c, <1>d
      <4>2. \A i \in DOMAIN tx'.makers :
               i \in DOMAIN tx.makers \/ i = Len(tx.makers) + 1
        BY <4>1, SMT
      <4>3. c \notin DOMAIN draft.orders
        BY <1>c, NoDraftedOrders DEF DraftHeld
      <4>4. ASSUME NEW i \in DOMAIN tx'.makers
            PROVE  LET id == tx'.makers[i].id
                   IN  /\ id \in tx'.locks
                       /\ id \notin DOMAIN draft'.orders
                       /\ IsEligibleMaker(Taker', orders'[id])
                       /\ tx'.makers[i].remainingAmount
                             = orders'[id].remainingAmount
                       /\ tx'.phase = "lock"
                             => Ahead(orders', Taker'.side, id, tx'.cursor)
                       /\ tx'.phase = "select" =>
                             \/ id = tx'.cursor
                             \/ Ahead(orders', Taker'.side, id, tx'.cursor)
        <5>1. CASE i \in DOMAIN tx.makers
          BY <5>1, <4>1, <1>c DEF MakersHeld, Taker
        <5>2. CASE i = Len(tx.makers) + 1
          BY <5>2, <4>1, <4>3, <3>3, <1>a, <1>c DEF Taker
        <5>3. QED
          BY <5>1, <5>2, <4>2
      <4>5. ASSUME NEW i \in DOMAIN tx'.makers, NEW j \in DOMAIN tx'.makers,
                   tx'.makers[i].id = tx'.makers[j].id
            PROVE  i = j
        BY <4>1, <4>2, <4>5, <3>1, <1>a DEF MakersHeld
      <4>6. QED
        BY <4>4, <4>5 DEF MakersHeld
    <3>4. QED
      BY <3>2, <3>3
  <2>5. DraftHeld'
    BY <1>c, NoDraftedOrders DEF DraftHeld
  <2>6. QED
    BY <2>1, <2>2, <2>3, <2>4, <2>5
<1>3. QED
  BY <1>1, <1>2 DEF Locked

\* The maker being settled and what of it is traded.
LEMMA NextMakerRow ==
    ASSUME Locked, Settling
    PROVE  /\ NextMaker.id \in DOMAIN orders /\ NextMaker.id \in Nat
           /\ NextMaker.id \in tx.locks \ {tx.taker}
           /\ NextMaker.id \notin DOMAIN draft.orders
           /\ orders[NextMaker.id] \in Order
           /\ IsEligibleMaker(Taker, orders[NextMaker.id])
           /\ NextMaker.remainingAmount = orders[NextMaker.id].remainingAmount
           /\ NextMaker.remainingAmount \in Money
           /\ tx.remaining \in Money
           /\ TradePrice \in Money
           /\ TradeAmount \in Money
           /\ TradeAmount <= tx.remaining
           /\ TradeAmount <= NextMaker.remainingAmount
           /\ tx.remaining - TradeAmount \in Money
           /\ NextMaker.remainingAmount - TradeAmount \in Money
<1>1. /\ tx.makers \in Seq(Maker) /\ tx.makers # <<>> /\ tx.remaining \in Money
  BY DEF Locked, TypeOK, Transaction, Settling
<1>2. 1 \in DOMAIN tx.makers /\ NextMaker = tx.makers[1]
  BY <1>1 DEF NextMaker
<1>3. /\ NextMaker.id \in tx.locks
      /\ NextMaker.id \notin DOMAIN draft.orders
      /\ IsEligibleMaker(Taker, orders[NextMaker.id])
      /\ NextMaker.remainingAmount = orders[NextMaker.id].remainingAmount
  BY <1>2 DEF Locked, LockDiscipline, MakersHeld
<1>4. /\ NextMaker.id \in DOMAIN orders /\ NextMaker.id \in Nat
      /\ orders[NextMaker.id] \in Order
  BY <1>3, OrderRows DEF Locked, LockDiscipline, CursorHeld
<1>5. NextMaker.id # tx.taker
  BY <1>3 DEF IsEligibleMaker, Opposes, Taker
<1>6. /\ NextMaker.remainingAmount \in Money /\ TradePrice \in Money
  BY <1>3, <1>4 DEF Order, TradePrice
<1>7. /\ TradeAmount \in Money
      /\ TradeAmount <= tx.remaining
      /\ TradeAmount <= NextMaker.remainingAmount
      /\ tx.remaining - TradeAmount \in Money
      /\ NextMaker.remainingAmount - TradeAmount \in Money
  BY <1>1, <1>6, DecimalsAssumption, SMT DEF TradeAmount, Lesser, Money
<1>8. QED
  BY <1>1, <1>3, <1>4, <1>5, <1>6, <1>7

\* The order that buys pays no less than the trade costs.
LEMMA PayableCost ==
    ASSUME Locked, Settling
    PROVE  /\ ExecutedCost \in Nat
           /\ ReservedCost \in Nat
           /\ ExecutedCost <= ReservedCost
<1>1. /\ TradePrice \in Nat /\ TradeAmount \in Nat
      /\ tx.remaining \in Nat /\ NextMaker.remainingAmount \in Nat
      /\ TradeAmount \in 0..tx.remaining
      /\ TradeAmount \in 0..NextMaker.remainingAmount
  BY NextMakerRow, DecimalsAssumption, SMT DEF Money
<1>2. ExecutedCost \in Nat
  BY <1>1, MultiplyScaledNat DEF ExecutedCost
<1>3. CASE Taker.side = "BUY"
  <2>1. Taker.price \in Nat
    BY TakerRow, MoneyNat DEF Settling
  <2>2. TradePrice <= Taker.price
    BY <1>3, NextMakerRow DEF IsEligibleMaker, Opposes, TradePrice
  <2>3. TradePrice \in 0..Taker.price
    BY <1>1, <2>1, <2>2, SMT
  <2>4. ExecutedCost <= BuyReservationDebit(tx.remaining, Taker.price, TradeAmount)
    BY <1>1, <2>1, <2>3, DebitCoversExecution DEF ExecutedCost
  <2>5. ExecutedCost <= ReservedCost
    BY <1>3, <2>4 DEF ReservedCost
  <2>6. ReservedCost \in Int
    <3>1. /\ tx.remaining - TradeAmount \in Nat
      BY <1>1, SMT
    <3>2. /\ MultiplyScaled(tx.remaining, Taker.price) \in Nat
          /\ MultiplyScaled(tx.remaining - TradeAmount, Taker.price) \in Nat
      BY <3>1, <1>1, <2>1, MultiplyScaledNat
    <3>3. QED
      BY <3>2, <1>3, SMT DEF ReservedCost, BuyReservationDebit
  <2>7. QED
    BY <1>2, <2>5, <2>6, SMT
<1>4. CASE Taker.side # "BUY"
  <2>1. TradePrice \in 0..TradePrice
    BY <1>1, SMT
  <2>2. ExecutedCost
           <= BuyReservationDebit(NextMaker.remainingAmount, TradePrice, TradeAmount)
    BY <1>1, <2>1, DebitCoversExecution DEF ExecutedCost
  <2>3. ExecutedCost <= ReservedCost
    BY <1>4, <2>2 DEF ReservedCost
  <2>4. ReservedCost \in Int
    <3>1. NextMaker.remainingAmount - TradeAmount \in Nat
      BY <1>1, SMT
    <3>2. /\ MultiplyScaled(NextMaker.remainingAmount, TradePrice) \in Nat
          /\ MultiplyScaled(NextMaker.remainingAmount - TradeAmount, TradePrice) \in Nat
      BY <3>1, <1>1, MultiplyScaledNat
    <3>3. QED
      BY <3>2, <1>4, SMT DEF ReservedCost, BuyReservationDebit
  <2>5. QED
    BY <1>2, <2>3, <2>4, SMT
<1>5. QED
  BY <1>3, <1>4

\* A wallet that a settlement writes was one before.
LEMMA SeenWalletRow ==
    ASSUME Locked, NEW u \in Users
    PROVE  SeenWallets[u] \in Wallet
BY DEF Locked, TypeOK, SeenWallets, Overlay

\* A trade the balances accept has a cost and fees that fit their columns.
LEMMA NextTradeType ==
    ASSUME Locked, Settling, BalancesAccepted
    PROVE  NextTrade \in Trade
<1>0. Taker.userId \in Users /\ orders[NextMaker.id].userId \in Users
  BY TakerRow, NextMakerRow DEF Settling, Order
<1>1. ExecutedCost \in Money
  <2> DEFINE buyer == IF Taker.side = "BUY" THEN Taker.userId
                                            ELSE orders[NextMaker.id].userId
             before == SeenWallets[buyer]
  <2>1. before \in Wallet
    BY <1>0, SeenWalletRow
  <2>2. before.reservedUsd - ReservedCost \in Money
    BY <2>1 DEF BalancesAccepted, WithinBounds, TakerWallet, MakerWallet,
                WalletAfterBuying, Wallet
  <2>3. before.reservedUsd \in Money
    BY <2>1 DEF Wallet
  <2>4. QED
    BY <2>2, <2>3, PayableCost, DecimalsAssumption, SMT DEF Money
<1>2. ASSUME NEW x \in Money, NEW rate \in 0..Scale
      PROVE  MultiplyScaled(x, rate) \in Money
  <2>1. x \in Nat
    BY MoneyNat
  <2>2. MultiplyScaled(x, rate) \in Nat /\ MultiplyScaled(x, rate) <= x
    BY <2>1, FeeAtMostGross
  <2>3. QED
    BY <2>1, <2>2, DecimalsAssumption, SMT DEF Money
<1>3. /\ MultiplyScaled(ExecutedCost, MakerFeeRate) \in Money
      /\ MultiplyScaled(ExecutedCost, TakerFeeRate) \in Money
      /\ MultiplyScaled(TradeAmount, MakerFeeRate) \in Money
      /\ MultiplyScaled(TradeAmount, TakerFeeRate) \in Money
  BY <1>1, <1>2, NextMakerRow, RowsAssumption
<1>4. /\ NextMaker.id \in Nat /\ tx.taker \in Nat /\ Taker.side \in Side
      /\ TradePrice \in Money /\ TradeAmount \in Money
  BY NextMakerRow, TakerRow DEF Settling
<1>5. QED
  BY <1>3, <1>4 DEF NextTrade, TradeRow, Trade, ExecutedCost

LEMMA SettleMakerLocked ==
    ASSUME Locked, SettleMaker
    PROVE  Locked'
<1> DEFINE m == NextMaker.id
           makerUser == orders[m].userId
<1>a. Settling /\ BalancesAccepted /\ tx.phase = "settle"
  BY DEF SettleMaker, Settling
<1>b. /\ Taker.userId \in Users /\ makerUser \in Users
      /\ orders[m] \in Order /\ m \in DOMAIN orders
      /\ m \in tx.locks \ {tx.taker}
      /\ tx.remaining - TradeAmount \in Money
      /\ NextMaker.remainingAmount - TradeAmount \in Money
      /\ tx.remaining - TradeAmount <= tx.remaining
  BY <1>a, TakerRow, NextMakerRow, DecimalsAssumption DEF Order, Money
<1>c. /\ tx.makers \in Seq(Maker) /\ tx.makers # <<>>
      /\ Tail(tx.makers) \in Seq(Maker)
      /\ DOMAIN Tail(tx.makers) = 1..(Len(tx.makers) - 1)
      /\ DOMAIN tx.makers = 1..Len(tx.makers) /\ Len(tx.makers) \in Nat
      /\ 1 \in DOMAIN tx.makers /\ NextMaker = tx.makers[1]
      /\ \A i \in DOMAIN Tail(tx.makers) :
            /\ i + 1 \in DOMAIN tx.makers /\ i + 1 # 1
            /\ Tail(tx.makers)[i] = tx.makers[i + 1]
  BY <1>a DEF Locked, TypeOK, Transaction, Settling, NextMaker
<1>d. /\ tx \in Transaction
      /\ tx'.phase = "settle" /\ tx'.taker = tx.taker
      /\ tx'.remaining = tx.remaining - TradeAmount
      /\ tx'.makers = Tail(tx.makers) /\ tx'.locks = tx.locks
      /\ tx'.cursor = tx.cursor
      /\ orders' = orders /\ cancels' = cancels
      /\ tx' \in Transaction
  BY <1>a, <1>b, <1>c DEF Locked, TypeOK, Transaction, SettleMaker
<1>e. /\ draft'.orders = Write(draft.orders, m, MakerAfterTrade)
      /\ draft'.wallets = Write(Write(draft.wallets, Taker.userId, TakerWallet),
                                makerUser, MakerWallet)
      /\ draft'.trades = Append(draft.trades, NextTrade)
  BY DEF SettleMaker
<1>f. /\ MakerAfterTrade = AfterTrades(orders[m], MakerAfterTrade.remainingAmount, TRUE)
      /\ MakerAfterTrade \in Order
  BY <1>b DEF MakerAfterTrade, AfterTrades, Order, OrderStatus
<1>1. TypeOK'
  <2>1. /\ DOMAIN draft'.orders \subseteq DOMAIN orders'
        /\ \A o \in DOMAIN draft'.orders : draft'.orders[o] \in Order
    BY <1>b, <1>d, <1>e, <1>f DEF Locked, TypeOK, Write
  <2>2. /\ DOMAIN draft'.wallets \subseteq Users
        /\ \A u \in DOMAIN draft'.wallets : draft'.wallets[u] \in Wallet
    <3>1. TakerWallet \in Wallet /\ MakerWallet \in Wallet
      BY <1>a DEF BalancesAccepted, WithinBounds
    <3> DEFINE ws == Write(draft.wallets, Taker.userId, TakerWallet)
    <3>2. /\ DOMAIN ws \subseteq Users
          /\ \A u \in DOMAIN ws : ws[u] \in Wallet
      BY <3>1, <1>b DEF Locked, TypeOK, Write
    <3> HIDE DEF ws
    <3>3. /\ DOMAIN Write(ws, makerUser, MakerWallet) \subseteq Users
          /\ \A u \in DOMAIN Write(ws, makerUser, MakerWallet) :
                Write(ws, makerUser, MakerWallet)[u] \in Wallet
      BY <3>1, <3>2, <1>b DEF Write
    <3>4. draft'.wallets = Write(ws, makerUser, MakerWallet)
      BY <1>e DEF ws
    <3>5. QED
      BY <3>3, <3>4
  <2>3. draft'.trades \in Seq(Trade)
    BY <1>a, <1>e, NextTradeType DEF Locked, TypeOK
  <2>4. UNCHANGED <<orders, wallets, trades, matchingIntents, realtimeOutbox,
                    cancels>>
    BY DEF SettleMaker
  <2>5. QED
    BY <1>d, <2>1, <2>2, <2>3, <2>4 DEF Locked, TypeOK
<1>2. LockDiscipline'
  <2> USE DEF Locked, LockDiscipline
  <2>1. CancelsHeld'
    BY <1>d DEF CancelsHeld
  <2>2. TakerHeld'
    <3>1. Taker.remainingAmount \in Int /\ tx.remaining \in Int
      BY <1>a, TakerRow, <1>d, DecimalsAssumption DEF Settling, Money, Transaction
    <3>2. tx.remaining <= Taker.remainingAmount
      BY <1>a DEF TakerHeld
    <3>3. tx'.remaining <= Taker.remainingAmount
      BY <3>1, <3>2, <1>b, <1>d, DecimalsAssumption DEF Money
    <3>4. QED
      BY <3>3, <1>a, <1>d DEF TakerHeld, Taker
  <2>3. CursorHeld'
    BY <1>a, <1>c, <1>d DEF CursorHeld, Taker
  <2>4. MakersHeld'
    <3>1. \A i \in DOMAIN Tail(tx.makers) : tx.makers[i + 1].id # m
      BY <1>c DEF MakersHeld
    <3>2. DOMAIN draft'.orders = DOMAIN draft.orders \cup {m}
      BY <1>e DEF Write
    <3>3. ASSUME NEW i \in DOMAIN tx'.makers
          PROVE  LET id == tx'.makers[i].id
                 IN  /\ id \in tx'.locks
                     /\ id \notin DOMAIN draft'.orders
                     /\ IsEligibleMaker(Taker', orders'[id])
                     /\ tx'.makers[i].remainingAmount
                           = orders'[id].remainingAmount
      BY <1>a, <1>c, <1>d, <3>1, <3>2 DEF MakersHeld, Taker
    <3>4. ASSUME NEW i \in DOMAIN tx'.makers, NEW j \in DOMAIN tx'.makers,
                 tx'.makers[i].id = tx'.makers[j].id
          PROVE  i = j
      <4>1. i + 1 = j + 1
        BY <3>4, <1>c, <1>d DEF MakersHeld
      <4>2. i \in Int /\ j \in Int
        BY <1>c, <1>d
      <4>3. QED
        BY <4>1, <4>2
    <3>5. QED
      BY <3>3, <3>4, <1>d DEF MakersHeld
  <2>5. DraftHeld'
    <3>1. ASSUME NEW o \in DOMAIN draft'.orders
          PROVE  /\ o \in tx.locks \ {tx.taker}
                 /\ draft'.orders[o] = AfterTrades(orders[o],
                                          draft'.orders[o].remainingAmount, TRUE)
      <4>1. CASE o = m
        BY <4>1, <1>b, <1>e, <1>f DEF Write
      <4>2. CASE o # m
        <5>1. o \in DOMAIN draft.orders /\ draft'.orders[o] = draft.orders[o]
          BY <4>2, <1>e DEF Write
        <5>2. QED
          BY <5>1 DEF DraftHeld
      <4>3. QED
        BY <4>1, <4>2
    <3>2. QED
      BY <3>1, <1>d DEF DraftHeld
  <2>6. QED
    BY <2>1, <2>2, <2>3, <2>4, <2>5
<1>3. QED
  BY <1>1, <1>2 DEF Locked

\* While others commit, the matching transaction holds what it held if they
\* keep the rows it locked, and every row's owner, side and price.
LEMMA OthersKeepHeld ==
    ASSUME Locked, tx' = tx, draft' = draft,
           \A o \in DOMAIN orders :
              /\ o \in DOMAIN orders'
              /\ orders'[o].userId = orders[o].userId
              /\ orders'[o].side = orders[o].side
              /\ orders'[o].price = orders[o].price
              /\ o \in tx.locks => orders'[o] = orders[o]
    PROVE  TakerHeld' /\ CursorHeld' /\ MakersHeld' /\ DraftHeld'
<1> USE DEF Locked, LockDiscipline
<1>1. TakerHeld'
  BY DEF TakerHeld, Taker
<1>2. tx.phase \in MatchingPhases => Taker' = Taker
  BY DEF TakerHeld, Taker
<1>3. CursorHeld'
  <2>1. tx.phase = "lock" => Opposes(Taker', orders'[tx.cursor])
    BY <1>2 DEF CursorHeld, Opposes
  <2>2. QED
    BY <2>1 DEF CursorHeld
<1>4. MakersHeld'
  <2>1. tx.makers # <<>> => tx.phase \in MatchingPhases /\ tx.cursor \in DOMAIN orders
    BY DEF CursorHeld
  <2>2. ASSUME NEW i \in DOMAIN tx.makers
        PROVE  tx.makers # <<>>
    BY <2>2 DEF TypeOK, Transaction
  <2>3. ASSUME NEW i \in DOMAIN tx.makers
        PROVE  LET id == tx.makers[i].id
               IN  /\ id \in tx.locks
                   /\ id \notin DOMAIN draft.orders
                   /\ IsEligibleMaker(Taker', orders'[id])
                   /\ tx.makers[i].remainingAmount = orders'[id].remainingAmount
                   /\ tx.phase = "lock"
                         => Ahead(orders', Taker'.side, id, tx.cursor)
                   /\ tx.phase = "select" =>
                         \/ id = tx.cursor
                         \/ Ahead(orders', Taker'.side, id, tx.cursor)
    <3> DEFINE id == tx.makers[i].id
    <3>1. id \in tx.locks /\ id \in DOMAIN orders /\ id \notin DOMAIN draft.orders
      BY DEF MakersHeld, CursorHeld
    <3>2. orders'[id] = orders[id] /\ Taker' = Taker
      BY <1>2, <2>1, <2>2, <3>1
    <3>3. Ahead(orders', Taker'.side, id, tx.cursor)
             = Ahead(orders, Taker.side, id, tx.cursor)
      BY <2>1, <2>2, <3>1, <3>2 DEF Ahead
    <3>4. QED
      BY <3>1, <3>2, <3>3 DEF MakersHeld
  <2>4. QED
    BY <2>3 DEF MakersHeld
<1>5. DraftHeld'
  BY DEF DraftHeld, CursorHeld
<1>6. QED
  BY <1>1, <1>3, <1>4, <1>5

\* A transaction that has ended holds nothing.
LEMMA EndedHoldsNothing ==
    ASSUME tx' = Idle, draft' = NoWrites
    PROVE  /\ TakerHeld' /\ CursorHeld' /\ MakersHeld' /\ DraftHeld'
           /\ tx'.locks = {}
BY NoDraftedOrders DEF TakerHeld, CursorHeld, MakersHeld, DraftHeld, Idle

\* A new order is a new row.
LEMMA AppendedOrder ==
    ASSUME TypeOK, NEW row \in Order, orders' = Append(orders, row)
    PROVE  /\ orders' \in Seq(Order)
           /\ Len(orders) + 1 \in Nat /\ Len(orders) + 1 \notin DOMAIN orders
           /\ DOMAIN orders' = DOMAIN orders \cup {Len(orders) + 1}
           /\ orders'[Len(orders) + 1] = row
           /\ \A o \in DOMAIN orders : orders'[o] = orders[o]
BY DEF TypeOK

\* An update of a row leaves the others.
LEMMA UpdatedOrder ==
    ASSUME TypeOK, NEW o \in DOMAIN orders, NEW status \in OrderStatus,
           orders' = [orders EXCEPT ![o].status = status]
    PROVE  /\ orders' \in Seq(Order)
           /\ DOMAIN orders' = DOMAIN orders
           /\ orders'[o] = [orders[o] EXCEPT !.status = status]
           /\ orders'[o] \in Order
           /\ \A x \in DOMAIN orders \ {o} : orders'[x] = orders[x]
<1>1. /\ orders \in [1..Len(orders) -> Order] /\ Len(orders) \in Nat
      /\ DOMAIN orders = 1..Len(orders)
  BY DEF TypeOK
<1>2. [orders[o] EXCEPT !.status = status] \in Order
  BY <1>1 DEF Order
<1>3. /\ DOMAIN orders' = DOMAIN orders
      /\ orders'[o] = [orders[o] EXCEPT !.status = status]
      /\ \A x \in DOMAIN orders \ {o} : orders'[x] = orders[x]
      /\ orders' \in [1..Len(orders) -> Order]
  BY <1>1, <1>2
<1>4. QED
  BY <1>1, <1>2, <1>3

LEMMA EventTypes ==
    ASSUME NEW orderId \in Nat
    PROVE  /\ \A reason \in MarketChangeReason :
                 MarketChanged(reason, orderId) \in Event
           /\ \A reason \in AccountChangeReason, u \in Users :
                 AccountChanged(reason, orderId, u) \in Event
BY DEF MarketChanged, AccountChanged, Event

LEMMA CreateOrderLocked ==
    ASSUME Locked, NEW u \in Users, NEW form \in OrderForms,
           CreateOrder(u, form)
    PROVE  Locked'
<1> DEFINE row == QueuedOrder(u, form)
           id == Len(orders) + 1
<1>1. row \in Order
  BY RowsAssumption DEF QueuedOrder, Order, OrderStatus, ActiveStatuses
<1>2. orders' = Append(orders, row)
  BY DEF CreateOrder
<1> HIDE DEF row
<1>3. /\ orders' \in Seq(Order)
      /\ id \in Nat
      /\ DOMAIN orders' = DOMAIN orders \cup {id}
      /\ \A o \in DOMAIN orders : orders'[o] = orders[o]
  BY <1>1, <1>2, AppendedOrder DEF Locked
<1>4. TypeOK'
  <2>1. wallets' \in [Users -> Wallet]
    BY DEF CreateOrder, WithinBounds, Locked, TypeOK
  <2>2. matchingIntents' \subseteq DOMAIN orders'
    BY <1>3 DEF CreateOrder, Locked, TypeOK
  <2>3. realtimeOutbox' \subseteq Event
    <3>1. AccountChanged("order-created", id, u) \in Event
      BY <1>3, EventTypes DEF AccountChangeReason
    <3>2. realtimeOutbox' = realtimeOutbox
                               \cup {AccountChanged("order-created", id, u)}
      BY DEF CreateOrder
    <3>3. QED
      BY <3>1, <3>2 DEF Locked, TypeOK
  <2>4. UNCHANGED <<trades, cancels, tx, draft>>
    BY DEF CreateOrder
  <2>5. QED
    BY <1>3, <2>1, <2>2, <2>3, <2>4 DEF Locked, TypeOK
<1>5. LockDiscipline'
  <2>1. UNCHANGED <<cancels, tx, draft>>
    BY DEF CreateOrder
  <2>2. TakerHeld' /\ CursorHeld' /\ MakersHeld' /\ DraftHeld'
    BY <1>3, <2>1, OthersKeepHeld
  <2>3. CancelsHeld'
    BY <1>3, <2>1 DEF CancelsHeld, Locked, LockDiscipline, TypeOK
  <2>4. QED
    BY <2>2, <2>3 DEF LockDiscipline
<1>6. QED
  BY <1>4, <1>5 DEF Locked

LEMMA LockForCancelLocked ==
    ASSUME Locked, NEW o \in DOMAIN orders, LockForCancel(o)
    PROVE  Locked'
<1>1. /\ UNCHANGED <<orders, wallets, trades, matchingIntents, realtimeOutbox,
                     tx, draft>>
      /\ DOMAIN cancels' = DOMAIN cancels \cup {o}
      /\ cancels'[o] = orders[o].remainingAmount
      /\ \A c \in DOMAIN cancels \ {o} : cancels'[c] = cancels[c]
      /\ o \notin tx.locks
      /\ orders[o].status \in ActiveStatuses
  BY DEF LockForCancel, Write
<1>2. orders[o].remainingAmount \in Money
  BY OrderRows DEF Locked, Order
<1>3. TypeOK'
  BY <1>1, <1>2 DEF Locked, TypeOK
<1>4. TakerHeld' /\ CursorHeld' /\ MakersHeld' /\ DraftHeld'
  BY <1>1, OthersKeepHeld
<1>5. CancelsHeld'
  BY <1>1 DEF CancelsHeld, Locked, LockDiscipline
<1>6. QED
  BY <1>3, <1>4, <1>5 DEF Locked, LockDiscipline

\* A cancellation that ends without a write.
LEMMA UnlockCancelledLocked ==
    ASSUME Locked, NEW o \in DOMAIN orders, UnlockCancelled(o),
           UNCHANGED <<orders, wallets, trades, matchingIntents,
                       realtimeOutbox, tx, draft>>
    PROVE  Locked'
<1>1. /\ DOMAIN cancels' = DOMAIN cancels \ {o}
      /\ \A c \in DOMAIN cancels' : cancels'[c] = cancels[c]
  BY DEF UnlockCancelled
<1>2. TypeOK'
  BY <1>1 DEF Locked, TypeOK
<1>3. TakerHeld' /\ CursorHeld' /\ MakersHeld' /\ DraftHeld'
  BY OthersKeepHeld
<1>4. CancelsHeld'
  BY <1>1 DEF CancelsHeld, Locked, LockDiscipline
<1>5. QED
  BY <1>2, <1>3, <1>4 DEF Locked, LockDiscipline

LEMMA CommitCancelLocked ==
    ASSUME Locked, NEW o \in DOMAIN orders, CommitCancel(o)
    PROVE  Locked'
<1> DEFINE u == orders[o].userId
<1>1. /\ o \in DOMAIN cancels
      /\ orders' = [orders EXCEPT ![o].status = "CANCELLED"]
      /\ DOMAIN cancels' = DOMAIN cancels \ {o}
      /\ \A c \in DOMAIN cancels' : cancels'[c] = cancels[c]
      /\ UNCHANGED <<trades, matchingIntents, tx, draft>>
  BY DEF CommitCancel, UnlockCancelled
<1>2. /\ orders' \in Seq(Order)
      /\ DOMAIN orders' = DOMAIN orders
      /\ orders'[o] = [orders[o] EXCEPT !.status = "CANCELLED"]
      /\ \A x \in DOMAIN orders \ {o} : orders'[x] = orders[x]
      /\ orders[o] \in Order /\ o \in Nat
      /\ u \in Users
  BY <1>1, UpdatedOrder, OrderRows DEF OrderStatus, Locked, Order
<1>3. TypeOK'
  <2>1. wallets' \in [Users -> Wallet]
    BY <1>2 DEF CommitCancel, WithinBounds, Locked, TypeOK
  <2>2. realtimeOutbox' \subseteq Event
    <3>1. /\ MarketChanged("order-cancelled", o) \in Event
          /\ AccountChanged("order-cancelled", o, u) \in Event
      BY <1>2, EventTypes DEF MarketChangeReason, AccountChangeReason
    <3>2. realtimeOutbox' = realtimeOutbox
             \cup {MarketChanged("order-cancelled", o),
                   AccountChanged("order-cancelled", o, u)}
      BY DEF CommitCancel
    <3>3. QED
      BY <3>1, <3>2 DEF Locked, TypeOK
  <2>3. QED
    BY <1>1, <1>2, <2>1, <2>2 DEF Locked, TypeOK
<1>4. LockDiscipline'
  <2>1. o \notin tx.locks
    BY <1>1 DEF Locked, LockDiscipline, CancelsHeld
  <2>2. \A x \in DOMAIN orders :
           /\ x \in DOMAIN orders'
           /\ orders'[x].userId = orders[x].userId
           /\ orders'[x].side = orders[x].side
           /\ orders'[x].price = orders[x].price
           /\ x \in tx.locks => orders'[x] = orders[x]
    BY <1>2, <2>1 DEF Order
  <2>3. TakerHeld' /\ CursorHeld' /\ MakersHeld' /\ DraftHeld'
    BY <1>1, <2>2, OthersKeepHeld
  <2>4. CancelsHeld'
    BY <1>1, <1>2 DEF CancelsHeld, Locked, LockDiscipline, TypeOK
  <2>5. QED
    BY <2>3, <2>4 DEF LockDiscipline
<1>5. QED
  BY <1>3, <1>4 DEF Locked

LEMMA RejectTakerLocked ==
    ASSUME Locked, RejectTaker
    PROVE  Locked'
<1> DEFINE o == tx.taker
           u == Taker.userId
<1>1. /\ tx.phase = "reject" /\ o \notin DOMAIN cancels
      /\ orders' = [orders EXCEPT ![o].status = "REJECTED"]
      /\ tx' = Idle
      /\ UNCHANGED <<trades, matchingIntents, cancels, draft>>
  BY DEF RejectTaker
<1>2. o \in DOMAIN orders /\ o \in Nat /\ u \in Users
  BY <1>1, TakerRow
<1>3. /\ orders' \in Seq(Order)
      /\ DOMAIN orders' = DOMAIN orders
      /\ \A x \in DOMAIN orders \ {o} : orders'[x] = orders[x]
  BY <1>1, <1>2, UpdatedOrder DEF OrderStatus, Locked
<1>4. TypeOK'
  <2>1. wallets' \in [Users -> Wallet]
    BY <1>2 DEF RejectTaker, WithinBounds, Locked, TypeOK
  <2>2. realtimeOutbox' \subseteq Event
    <3>1. AccountChanged("order-rejected", o, u) \in Event
      BY <1>2, EventTypes DEF MarketChangeReason, AccountChangeReason
    <3>2. realtimeOutbox' = realtimeOutbox
                               \cup {AccountChanged("order-rejected", o, u)}
      BY DEF RejectTaker
    <3>3. QED
      BY <3>1, <3>2 DEF Locked, TypeOK
  <2>3. QED
    BY <1>1, <1>3, <2>1, <2>2, IdleType DEF Locked, TypeOK
<1>5. LockDiscipline'
  <2>1. draft' = NoWrites
    BY <1>1 DEF Locked, LockDiscipline, DraftHeld
  <2>2. CancelsHeld'
    BY <1>1, <1>3, <2>1, EndedHoldsNothing
       DEF CancelsHeld, Locked, LockDiscipline, TypeOK
  <2>3. QED
    BY <1>1, <2>1, <2>2, EndedHoldsNothing DEF LockDiscipline
<1>6. QED
  BY <1>4, <1>5 DEF Locked

\* The orders table that a match commits.
LEMMA MatchedOrders ==
    ASSUME Locked, CommitMatch
    PROVE  /\ orders' \in Seq(Order)
           /\ DOMAIN orders' = DOMAIN orders
           /\ \A o \in DOMAIN orders \ tx.locks : orders'[o] = orders[o]
           /\ orders'[tx.taker]
                 = AfterTrades(Taker, tx.remaining, draft.trades # <<>>)
           /\ \A o \in DOMAIN orders \ {tx.taker} : orders'[o] = SeenOrders[o]
<1>1. /\ orders \in [1..Len(orders) -> Order] /\ Len(orders) \in Nat
      /\ DOMAIN orders = 1..Len(orders)
      /\ tx.phase = "settle" /\ tx.remaining \in Money
      /\ tx.taker \in DOMAIN orders /\ tx.taker \in tx.locks
  BY TakerRow DEF Locked, TypeOK, Transaction, CommitMatch, LockDiscipline, TakerHeld
<1>2. /\ DOMAIN SeenOrders = DOMAIN orders
      /\ \A o \in DOMAIN orders : SeenOrders[o] \in Order
      /\ \A o \in DOMAIN orders \ tx.locks : SeenOrders[o] = orders[o]
      /\ SeenOrders[tx.taker] = Taker
      /\ SeenOrders \in [1..Len(orders) -> Order]
  <2>1. /\ DOMAIN SeenOrders = DOMAIN orders
        /\ \A o \in DOMAIN orders : SeenOrders[o]
              = IF o \in DOMAIN draft.orders THEN draft.orders[o] ELSE orders[o]
        /\ SeenOrders = [o \in DOMAIN orders |-> SeenOrders[o]]
    BY DEF SeenOrders, Overlay
  <2>2. \A o \in DOMAIN orders : SeenOrders[o] \in Order
    BY <1>1, <2>1 DEF Locked, TypeOK
  <2>3. /\ \A o \in DOMAIN orders \ tx.locks : SeenOrders[o] = orders[o]
        /\ SeenOrders[tx.taker] = Taker
    BY <1>1, <2>1 DEF Locked, LockDiscipline, DraftHeld, Taker
  <2>4. QED
    BY <1>1, <2>1, <2>2, <2>3
<1>3. orders' = [SeenOrders EXCEPT ![tx.taker] =
                    AfterTrades(Taker, tx.remaining, draft.trades # <<>>)]
  BY <1>1, <1>2 DEF CommitMatch
<1>4. Taker \in Order
  BY <1>1, TakerRow
<1>5. AfterTrades(Taker, tx.remaining, draft.trades # <<>>) \in Order
  BY <1>1, <1>4 DEF AfterTrades, Order, OrderStatus
<1>6. orders' \in [1..Len(orders) -> Order]
  BY <1>1, <1>2, <1>3, <1>5
<1>7. QED
  BY <1>1, <1>2, <1>3, <1>6

LEMMA CommitMatchLocked ==
    ASSUME Locked, CommitMatch
    PROVE  Locked'
<1>1. tx' = Idle /\ draft' = NoWrites /\ UNCHANGED <<matchingIntents, cancels>>
  BY DEF CommitMatch
<1>2. /\ orders' \in Seq(Order)
      /\ DOMAIN orders' = DOMAIN orders
      /\ \A o \in DOMAIN orders \ tx.locks : orders'[o] = orders[o]
  BY MatchedOrders
<1>3. TypeOK'
  <2>1. wallets' \in [Users -> Wallet]
    <3>1. \A u \in Users : SeenWallets[u] \in Wallet
      BY SeenWalletRow
    <3>2. SeenWallets = [u \in Users |-> SeenWallets[u]]
      BY DEF SeenWallets, Overlay, Locked, TypeOK
    <3>3. QED
      BY <3>1, <3>2 DEF CommitMatch
  <2>2. trades' \in Seq(Trade)
    BY DEF CommitMatch, Locked, TypeOK
  <2>3. realtimeOutbox' \subseteq Event
    <3> DEFINE reason == IF draft.trades # <<>> THEN "trade-executed"
                                                ELSE "order-opened"
    <3>1. /\ reason \in MarketChangeReason /\ reason \in AccountChangeReason
          /\ tx.taker \in Nat
      BY TakerRow DEF CommitMatch, MarketChangeReason, AccountChangeReason
    <3>2. AffectedUserIds \subseteq Users
      BY TakerRow DEF AffectedUserIds, Locked, TypeOK, CommitMatch
    <3> HIDE DEF reason
    <3>3. /\ MarketChanged(reason, tx.taker) \in Event
          /\ \A u \in AffectedUserIds :
                AccountChanged(reason, tx.taker, u) \in Event
      BY <3>1, <3>2, EventTypes
    <3>4. realtimeOutbox' = realtimeOutbox
              \cup {MarketChanged(reason, tx.taker)}
              \cup {AccountChanged(reason, tx.taker, u) : u \in AffectedUserIds}
      BY DEF CommitMatch, reason
    <3>5. QED
      BY <3>3, <3>4 DEF Locked, TypeOK
  <2>4. DOMAIN NoWrites.wallets = {} /\ NoWrites.trades = << >>
    <3>1. NoWrites.wallets = << >> /\ NoWrites.trades = << >>
      BY DEF NoWrites
    <3>2. QED
      BY <3>1
  <2>5. QED
    BY <1>1, <1>2, <2>1, <2>2, <2>3, <2>4, IdleType, NoDraftedOrders
       DEF Locked, TypeOK
<1>4. LockDiscipline'
  <2>1. CancelsHeld'
    BY <1>1, <1>2, EndedHoldsNothing
       DEF CancelsHeld, Locked, LockDiscipline, TypeOK
  <2>2. QED
    BY <1>1, <2>1, EndedHoldsNothing DEF LockDiscipline
<1>5. QED
  BY <1>3, <1>4 DEF Locked

LEMMA InitLocked == Init => Locked
<1> SUFFICES ASSUME Init PROVE Locked
  OBVIOUS
<1> USE DEF Init
<1>1. TypeOK
  <2>1. /\ orders = << >> /\ DOMAIN orders = {} /\ orders \in Seq(Order)
        /\ trades \in Seq(Trade)
        /\ cancels = << >> /\ DOMAIN cancels = {}
    OBVIOUS
  <2>2. wallets \in [Users -> Wallet]
    BY RowsAssumption, MoneyNat DEF Wallet
  <2>3. /\ DOMAIN draft.wallets = {} /\ draft.trades = << >>
    <3>1. draft.wallets = << >> /\ draft.trades = << >>
      BY DEF NoWrites
    <3>2. QED
      BY <3>1
  <2>4. matchingIntents = {} /\ realtimeOutbox = {}
    OBVIOUS
  <2>5. QED
    BY <2>1, <2>2, <2>3, <2>4, IdleType, NoDraftedOrders DEF TypeOK
<1>2. LockDiscipline
  <2>1. DOMAIN cancels = {}
    OBVIOUS
  <2>2. QED
    BY <2>1, NoDraftedOrders
       DEF LockDiscipline, CancelsHeld, TakerHeld, CursorHeld, MakersHeld,
           DraftHeld, Idle
<1>3. QED
  BY <1>1, <1>2 DEF Locked

LEMMA NextLocked == Locked /\ [Next]_vars => Locked'
<1> SUFFICES ASSUME Locked, [Next]_vars
             PROVE  Locked'
  OBVIOUS
<1>1. ASSUME NEW u \in Users, NEW form \in OrderForms, CreateOrder(u, form)
      PROVE  Locked'
  BY <1>1, CreateOrderLocked
<1>2. ASSUME NEW o \in DOMAIN orders, LockForCancel(o)
      PROVE  Locked'
  BY <1>2, LockForCancelLocked
<1>3. ASSUME NEW o \in DOMAIN orders, CommitCancel(o)
      PROVE  Locked'
  BY <1>3, CommitCancelLocked
<1>4. ASSUME NEW o \in DOMAIN orders, RefuseCancel(o) \/ AbortCancel(o)
      PROVE  Locked'
  BY <1>4, UnlockCancelledLocked DEF RefuseCancel, AbortCancel
<1>5. ASSUME NEW o \in DOMAIN orders,
             LockMarket(o, "process") \/ LockMarket(o, "reject")
      PROVE  Locked'
  BY <1>5, LockMarketLocked
<1>6. CASE SkipProcessed
  BY <1>6, SkipProcessedLocked
<1>7. CASE LockTaker
  BY <1>7, LockTakerLocked
<1>8. CASE RejectTaker
  BY <1>8, RejectTakerLocked
<1>9. CASE FindCandidate
  BY <1>9, FindCandidateLocked
<1>10. CASE LockCandidate
  BY <1>10, LockCandidateLocked
<1>11. CASE EndSelection
  BY <1>11, EndSelectionLocked
<1>12. CASE SkipDust
  BY <1>12, SkipDustLocked
<1>13. CASE SettleMaker
  BY <1>13, SettleMakerLocked
<1>14. CASE CommitMatch
  BY <1>14, CommitMatchLocked
<1>15. CASE RefuseSettlement \/ RefuseRejection \/ Rollback
  BY <1>15, UndoLocked DEF RefuseSettlement, RefuseRejection, Rollback
<1>16. CASE UNCHANGED vars
  BY <1>16 DEF vars, Locked, TypeOK, LockDiscipline, CancelsHeld, TakerHeld,
               CursorHeld, MakersHeld, DraftHeld, Taker
<1>17. QED
  BY <1>1, <1>2, <1>3, <1>4, <1>5, <1>6, <1>7, <1>8, <1>9, <1>10, <1>11,
     <1>12, <1>13, <1>14, <1>15, <1>16 DEF Next

LEMMA AlwaysLocked == Spec => []Locked
BY InitLocked, NextLocked, PTL DEF Spec

\* Every row of every table fits its columns, and every local of a running
\* transaction is what the code's variables can hold: in particular no balance
\* is ever negative, and no trade or fee overflows its column.
THEOREM TypeInvariant == Spec => []TypeOK
<1>1. Locked => TypeOK
  BY DEF Locked
<1>2. QED
  BY <1>1, AlwaysLocked, PTL

\* What a transaction loaded under a row lock stays true until it ends, for any
\* number of concurrent cancellations and however selection and waits interleave.
THEOREM LocksAreHeld == Spec => []LockDiscipline
<1>1. Locked => LockDiscipline
  BY DEF Locked
<1>2. QED
  BY <1>1, AlwaysLocked, PTL

\* No deadlock on row locks, for any number of users and cancellations: while the
\* matching transaction waits for an order row, it has written no wallet.
THEOREM NobodyWaitsInCircles == Spec => []NoWaitCycle
<1>1. Locked => NoWaitCycle
  <2>1. SUFFICES ASSUME Locked, NEW o \in DOMAIN cancels, MatchWaitsFor(o)
                 PROVE  DOMAIN draft.wallets = {}
    BY DEF NoWaitCycle, WaitsForMatch
  <2>2. tx.phase # "settle"
    BY <2>1 DEF MatchWaitsFor
  <2>3. draft = NoWrites
    BY <2>1, <2>2 DEF Locked, LockDiscipline, DraftHeld
  <2>4. QED
    BY <2>3 DEF NoWrites
<1>2. QED
  BY <1>1, AlwaysLocked, PTL

-----------------------------------------------------------------------------
(* The steps that write a table or a draft, and the others *)

\* A step that commits nothing: a draft is kept as it is, or there is none and
\* a settlement can only be at its start.
QuietStep ==
    /\ UNCHANGED <<orders, wallets, trades, realtimeOutbox>>
    /\ \/ /\ draft' = NoWrites
          /\ tx'.phase = "settle" =>
                tx'.remaining = orders[tx'.taker].remainingAmount
       \/ /\ draft' = draft
          /\ tx'.phase = tx.phase
          /\ tx'.taker = tx.taker
          /\ tx'.remaining = tx.remaining

LEMMA StepKinds ==
    ASSUME Locked, [Next]_vars
    PROVE  \/ \E u \in Users, form \in OrderForms : CreateOrder(u, form)
           \/ \E o \in DOMAIN orders : CommitCancel(o)
           \/ RejectTaker
           \/ SettleMaker
           \/ CommitMatch
           \/ QuietStep
<1>1. tx \in Transaction /\ (tx.phase # "settle" => draft = NoWrites)
  BY DEF Locked, TypeOK, LockDiscipline, DraftHeld
<1>2. ASSUME NEW o \in DOMAIN orders,
             LockForCancel(o) \/ RefuseCancel(o) \/ AbortCancel(o)
      PROVE  QuietStep
  BY <1>2 DEF LockForCancel, RefuseCancel, AbortCancel, QuietStep
<1>3. ASSUME NEW o \in DOMAIN orders,
             LockMarket(o, "process") \/ LockMarket(o, "reject")
      PROVE  QuietStep
  BY <1>1, <1>3 DEF LockMarket, QuietStep, Idle
<1>4. CASE SkipProcessed \/ LockTaker \/ FindCandidate \/ LockCandidate
              \/ EndSelection
  <2>1. draft' = NoWrites /\ UNCHANGED <<orders, wallets, trades, realtimeOutbox>>
    BY <1>1, <1>4 DEF SkipProcessed, LockTaker, FindCandidate, LockCandidate,
                      EndSelection
  <2>2. CASE EndSelection
    <3>1. /\ tx'.remaining = tx.remaining /\ tx'.taker = tx.taker
          /\ tx.remaining = orders[tx.taker].remainingAmount
      BY <1>1, <2>2
         DEF EndSelection, Transaction, Locked, LockDiscipline, TakerHeld, Taker
    <3>2. QED
      BY <2>1, <3>1 DEF QuietStep
  <2>3. CASE SkipProcessed \/ LockTaker \/ FindCandidate \/ LockCandidate
    <3>1. CASE SkipProcessed
      BY <2>1, <3>1 DEF SkipProcessed, Idle, QuietStep
    <3>2. CASE LockTaker
      BY <1>1, <2>1, <3>2 DEF LockTaker, Transaction, QuietStep
    <3>3. CASE FindCandidate
      BY <1>1, <2>1, <3>3 DEF FindCandidate, Transaction, QuietStep
    <3>4. CASE LockCandidate
      <4>1. tx'.phase = "select"
        BY <1>1, <3>4 DEF LockCandidate, Transaction
      <4>2. QED
        BY <2>1, <4>1 DEF QuietStep
    <3>5. QED
      BY <2>3, <3>1, <3>2, <3>3, <3>4
  <2>4. QED
    BY <1>4, <2>2, <2>3
<1>5. CASE SkipDust
  BY <1>1, <1>5 DEF SkipDust, QuietStep, Transaction
<1>6. CASE RefuseSettlement \/ RefuseRejection \/ Rollback
  BY <1>6 DEF RefuseSettlement, RefuseRejection, Rollback, Undo, QuietStep, Idle
<1>7. CASE UNCHANGED vars
  BY <1>7 DEF vars, QuietStep
<1>8. QED
  BY <1>2, <1>3, <1>4, <1>5, <1>6, <1>7 DEF Next

\* What a match has drafted of each maker: less than the row has left, of an
\* order still eligible, with its owner's wallet.
DraftedMakers ==
    \A o \in DOMAIN draft.orders :
        /\ IsEligibleMaker(Taker, orders[o])
        /\ draft.orders[o].remainingAmount <= orders[o].remainingAmount
        /\ orders[o].userId \in DOMAIN draft.wallets

\* A step that keeps the draft and the locked rows.
LEMMA DraftedKept ==
    ASSUME Locked, DraftedMakers, draft' = draft, tx'.taker = tx.taker,
           \A o \in tx.locks : orders'[o] = orders[o]
    PROVE  DraftedMakers'
<1>1. ASSUME NEW o \in DOMAIN draft.orders
      PROVE  Taker' = Taker /\ orders'[o] = orders[o]
  <2>1. tx.phase = "settle"
    BY NoDraftedOrders DEF Locked, LockDiscipline, DraftHeld
  <2>2. tx.taker \in tx.locks /\ o \in tx.locks
    BY <2>1 DEF Locked, LockDiscipline, DraftHeld, TakerHeld
  <2>3. QED
    BY <2>2 DEF Taker
<1>2. QED
  BY <1>1 DEF DraftedMakers

LEMMA NextDrafted ==
    ASSUME Locked, DraftedMakers, [Next]_vars
    PROVE  DraftedMakers'
<1>1. ASSUME NEW u \in Users, NEW form \in OrderForms, CreateOrder(u, form)
      PROVE  DraftedMakers'
  <2>1. QueuedOrder(u, form) \in Order
    BY RowsAssumption DEF QueuedOrder, Order, OrderStatus, ActiveStatuses
  <2>2. /\ orders' = Append(orders, QueuedOrder(u, form))
        /\ draft' = draft /\ tx' = tx
    BY <1>1 DEF CreateOrder
  <2>3. \A o \in tx.locks : orders'[o] = orders[o]
    BY <2>1, <2>2, AppendedOrder DEF Locked, LockDiscipline, CursorHeld
  <2>4. QED
    BY <2>2, <2>3, DraftedKept
<1>2. ASSUME NEW o \in DOMAIN orders, CommitCancel(o)
      PROVE  DraftedMakers'
  <2>1. /\ o \notin tx.locks /\ draft' = draft /\ tx' = tx
        /\ orders' = [orders EXCEPT ![o].status = "CANCELLED"]
    BY <1>2 DEF CommitCancel, Locked, LockDiscipline, CancelsHeld
  <2>2. \A x \in tx.locks : orders'[x] = orders[x]
    BY <2>1, UpdatedOrder DEF Locked, LockDiscipline, CursorHeld, OrderStatus
  <2>3. QED
    BY <2>1, <2>2, DraftedKept
<1>3. CASE RejectTaker
  <2>1. draft' = NoWrites
    BY <1>3 DEF RejectTaker, Locked, LockDiscipline, DraftHeld
  <2>2. QED
    BY <2>1, NoDraftedOrders DEF DraftedMakers
<1>4. CASE CommitMatch
  BY <1>4, NoDraftedOrders DEF CommitMatch, DraftedMakers
<1>5. CASE QuietStep
  <2>1. CASE draft' = NoWrites
    BY <2>1, NoDraftedOrders DEF DraftedMakers
  <2>2. CASE draft' = draft /\ tx'.taker = tx.taker
    BY <1>5, <2>2, DraftedKept DEF QuietStep
  <2>3. QED
    BY <1>5, <2>1, <2>2 DEF QuietStep
<1>6. CASE SettleMaker
  <2> DEFINE m == NextMaker.id
  <2>1. /\ Settling /\ orders' = orders /\ tx \in Transaction
        /\ draft'.orders = Write(draft.orders, m, MakerAfterTrade)
        /\ draft'.wallets = Write(Write(draft.wallets, Taker.userId, TakerWallet),
                                  orders[m].userId, MakerWallet)
    BY <1>6 DEF SettleMaker, Locked, TypeOK
  <2>2. tx'.taker = tx.taker /\ Taker' = Taker
    BY <1>6, <2>1 DEF SettleMaker, Transaction, Taker
  <2>3. /\ DOMAIN draft'.orders = DOMAIN draft.orders \cup {m}
        /\ draft'.orders[m] = MakerAfterTrade
        /\ \A o \in DOMAIN draft.orders \ {m} : draft'.orders[o] = draft.orders[o]
        /\ DOMAIN draft.wallets \subseteq DOMAIN draft'.wallets
        /\ orders[m].userId \in DOMAIN draft'.wallets
    BY <2>1 DEF Write
  <2>4. /\ IsEligibleMaker(Taker, orders[m])
        /\ m \notin DOMAIN draft.orders
        /\ MakerAfterTrade.remainingAmount <= orders[m].remainingAmount
    <3>1. /\ orders[m] \in Order /\ IsEligibleMaker(Taker, orders[m])
          /\ m \notin DOMAIN draft.orders
          /\ NextMaker.remainingAmount = orders[m].remainingAmount
          /\ TradeAmount \in Nat /\ NextMaker.remainingAmount \in Nat
      BY <2>1, NextMakerRow, MoneyNat
    <3>2. MakerAfterTrade.remainingAmount = NextMaker.remainingAmount - TradeAmount
      BY <3>1 DEF MakerAfterTrade, AfterTrades, Order
    <3>3. QED
      BY <3>1, <3>2
  <2> HIDE DEF m
  <2>5. QED
    BY <2>1, <2>2, <2>3, <2>4 DEF DraftedMakers
<1>7. QED
  BY <1>1, <1>2, <1>3, <1>4, <1>5, <1>6, StepKinds

-----------------------------------------------------------------------------
(* Every change is announced *)

\* Why the events of every commit are new: an event about an order names what
\* the order has become, and no status comes back.
EventsFollowOrders ==
    \A e \in realtimeOutbox :
        /\ e.orderId \in DOMAIN orders
        /\ e.reason # "order-created" => orders[e.orderId].status # "QUEUED"
        /\ e.reason = "order-cancelled"
              => orders[e.orderId].status = "CANCELLED"

Announcing == Locked /\ DraftedMakers /\ EventsFollowOrders

\* No order goes back to the queue, and none comes back once cancelled.
LEMMA StatusesAdvance ==
    ASSUME Locked, DraftedMakers, [Next]_vars
    PROVE  \A o \in DOMAIN orders :
              /\ o \in DOMAIN orders'
              /\ orders[o].status # "QUEUED" => orders'[o].status # "QUEUED"
              /\ orders[o].status = "CANCELLED" => orders'[o].status = "CANCELLED"
<1> DEFINE Advances(o) ==
              /\ o \in DOMAIN orders'
              /\ orders[o].status # "QUEUED" => orders'[o].status # "QUEUED"
              /\ orders[o].status = "CANCELLED" => orders'[o].status = "CANCELLED"
<1> SUFFICES ASSUME NEW o \in DOMAIN orders PROVE Advances(o)
  OBVIOUS
<1>0. orders[o] \in Order
  BY OrderRows DEF Locked
<1>1. ASSUME NEW u \in Users, NEW form \in OrderForms, CreateOrder(u, form)
      PROVE  Advances(o)
  <2>1. QueuedOrder(u, form) \in Order
    BY RowsAssumption DEF QueuedOrder, Order, OrderStatus, ActiveStatuses
  <2>2. orders' = Append(orders, QueuedOrder(u, form))
    BY <1>1 DEF CreateOrder
  <2>3. QED
    BY <2>1, <2>2, AppendedOrder DEF Locked
<1>2. ASSUME NEW c \in DOMAIN orders, CommitCancel(c)
      PROVE  Advances(o)
  <2>1. orders' = [orders EXCEPT ![c].status = "CANCELLED"]
    BY <1>2 DEF CommitCancel
  <2>2. /\ DOMAIN orders' = DOMAIN orders
        /\ orders'[c] = [orders[c] EXCEPT !.status = "CANCELLED"]
        /\ orders[c] \in Order
        /\ o # c => orders'[o] = orders[o]
    BY <2>1, UpdatedOrder, OrderRows DEF Locked, OrderStatus
  <2>3. orders'[c].status = "CANCELLED"
    BY <2>2 DEF Order
  <2>4. QED
    BY <2>2, <2>3
<1>3. CASE RejectTaker
  <2>1. /\ orders' = [orders EXCEPT ![tx.taker].status = "REJECTED"]
        /\ tx.taker \in DOMAIN orders /\ orders[tx.taker].status = "QUEUED"
    BY <1>3, TakerRow DEF RejectTaker, Taker
  <2>2. /\ DOMAIN orders' = DOMAIN orders
        /\ orders'[tx.taker] = [orders[tx.taker] EXCEPT !.status = "REJECTED"]
        /\ orders[tx.taker] \in Order
        /\ o # tx.taker => orders'[o] = orders[o]
    BY <2>1, UpdatedOrder, OrderRows DEF Locked, OrderStatus
  <2>3. QED
    BY <2>1, <2>2
<1>4. CASE CommitMatch
  <2>1. /\ DOMAIN orders' = DOMAIN orders
        /\ orders'[tx.taker]
              = AfterTrades(Taker, tx.remaining, draft.trades # <<>>)
        /\ o # tx.taker => orders'[o] = SeenOrders[o]
        /\ tx.phase = "settle"
    BY <1>4, MatchedOrders DEF CommitMatch
  <2>2. CASE o = tx.taker
    BY <2>1, <2>2 DEF Locked, LockDiscipline, TakerHeld, Taker
  <2>3. CASE o # tx.taker /\ o \in DOMAIN draft.orders
    <3>1. /\ orders'[o] = AfterTrades(orders[o],
                             draft.orders[o].remainingAmount, TRUE)
          /\ orders[o].status \in BookStatuses
      BY <2>1, <2>3
         DEF SeenOrders, Overlay, Locked, LockDiscipline, DraftHeld,
             DraftedMakers, IsEligibleMaker
    <3>2. orders'[o].status \in {"FILLED", "PARTIALLY_FILLED"}
      BY <1>0, <3>1 DEF AfterTrades, Order
    <3>3. QED
      BY <2>1, <3>1, <3>2 DEF BookStatuses
  <2>4. CASE o # tx.taker /\ o \notin DOMAIN draft.orders
    BY <2>1, <2>4 DEF SeenOrders, Overlay
  <2>5. QED
    BY <2>2, <2>3, <2>4
<1>5. CASE SettleMaker \/ QuietStep
  BY <1>5 DEF SettleMaker, QuietStep
<1>6. QED
  BY <1>1, <1>2, <1>3, <1>4, <1>5, StepKinds

\* The events that were there still say what their orders are.
LEMMA OldEventsHold ==
    ASSUME Announcing, [Next]_vars, NEW e \in realtimeOutbox
    PROVE  /\ e.orderId \in DOMAIN orders'
           /\ e.reason # "order-created" => orders'[e.orderId].status # "QUEUED"
           /\ e.reason = "order-cancelled"
                 => orders'[e.orderId].status = "CANCELLED"
BY StatusesAdvance DEF Announcing, EventsFollowOrders

\* An account shows its wallet and its orders' rows.
LEMMA AccountKept ==
    ASSUME NEW u, wallets'[u] = wallets[u],
           \A o \in DOMAIN orders :
              /\ o \in DOMAIN orders'
              /\ orders'[o].userId = orders[o].userId
              /\ orders[o].userId = u => orders'[o] = orders[o],
           \A o \in DOMAIN orders' \ DOMAIN orders : orders'[o].userId # u
    PROVE  AccountOf(u)' = AccountOf(u)
<1>1. {x \in DOMAIN orders' : orders'[x].userId = u}
         = {x \in DOMAIN orders : orders[x].userId = u}
  OBVIOUS
<1>2. \A o \in {x \in DOMAIN orders : orders[x].userId = u} :
         orders'[o] = orders[o]
  OBVIOUS
<1>3. {<<o, orders'[o]>> : o \in {x \in DOMAIN orders' : orders'[x].userId = u}}
         = {<<o, orders[o]>> : o \in {x \in DOMAIN orders : orders[x].userId = u}}
  BY <1>1, <1>2
<1>4. QED
  BY <1>3 DEF AccountOf

\* The market shows the trades and the orders on the book.
LEMMA MarketKept ==
    ASSUME trades' = trades,
           \A o \in DOMAIN orders :
              /\ o \in DOMAIN orders'
              /\ \/ orders'[o] = orders[o]
                 \/ /\ orders[o].status \notin BookStatuses
                    /\ orders'[o].status \notin BookStatuses,
           \A o \in DOMAIN orders' \ DOMAIN orders :
              orders'[o].status \notin BookStatuses
    PROVE  MarketView' = MarketView
<1>1. {x \in DOMAIN orders' : orders'[x].status \in BookStatuses}
         = {x \in DOMAIN orders : orders[x].status \in BookStatuses}
  OBVIOUS
<1>2. \A o \in {x \in DOMAIN orders : orders[x].status \in BookStatuses} :
         orders'[o] = orders[o]
  OBVIOUS
<1>3. {<<o, orders'[o].remainingAmount>> :
          o \in {x \in DOMAIN orders' : orders'[x].status \in BookStatuses}}
         = {<<o, orders[o].remainingAmount>> :
               o \in {x \in DOMAIN orders : orders[x].status \in BookStatuses}}
  BY <1>1, <1>2
<1>4. QED
  BY <1>3 DEF MarketView

\* What EveryChangeAnnounced says of one step.
StepAnnounced ==
    LET news == realtimeOutbox' \ realtimeOutbox
    IN  /\ \A u \in Users : AccountOf(u)' # AccountOf(u) =>
              \E e \in news : e.type = "account.changed" /\ e.userId = u
        /\ MarketView' # MarketView =>
              \E e \in news : e.type = "market.changed"

LEMMA CreateOrderAnnounced ==
    ASSUME Announcing, NEW u \in Users, NEW form \in OrderForms,
           CreateOrder(u, form)
    PROVE  StepAnnounced /\ EventsFollowOrders'
<1> DEFINE id == Len(orders) + 1
           event == AccountChanged("order-created", id, u)
           row == QueuedOrder(u, form)
<1>1. /\ row \in Order /\ row.userId = u /\ row.status = "QUEUED"
  BY RowsAssumption DEF QueuedOrder, Order, OrderStatus, ActiveStatuses
<1>2. /\ orders' = Append(orders, row)
      /\ wallets' = [wallets EXCEPT ![u] = wallets'[u]]
      /\ realtimeOutbox' = realtimeOutbox \cup {event}
      /\ trades' = trades
  BY DEF CreateOrder, Announcing, Locked, TypeOK
<1> HIDE DEF row
<1>3. /\ id \notin DOMAIN orders
      /\ DOMAIN orders' = DOMAIN orders \cup {id}
      /\ orders'[id] = row
      /\ \A o \in DOMAIN orders : orders'[o] = orders[o]
  BY <1>1, <1>2, AppendedOrder DEF Announcing, Locked
<1>4. /\ event.type = "account.changed" /\ event.userId = u
      /\ event.orderId = id /\ event.reason = "order-created"
  BY DEF AccountChanged
<1> HIDE DEF id, event
<1>5. event \in realtimeOutbox' \ realtimeOutbox
  BY <1>2, <1>3, <1>4 DEF Announcing, EventsFollowOrders
<1>6. ASSUME NEW v \in Users, v # u PROVE AccountOf(v)' = AccountOf(v)
  <2>1. wallets'[v] = wallets[v]
    BY <1>2, <1>6 DEF Announcing, Locked, TypeOK
  <2>2. QED
    BY <2>1, <1>1, <1>3, <1>6, AccountKept
<1>7. MarketView' = MarketView
  BY <1>1, <1>2, <1>3, MarketKept DEF BookStatuses
<1>8. StepAnnounced
  BY <1>4, <1>5, <1>6, <1>7 DEF StepAnnounced
<1>9. [Next]_vars
  BY DEF Next
<1>10. EventsFollowOrders'
  BY <1>2, <1>3, <1>4, <1>9, OldEventsHold DEF EventsFollowOrders
<1>11. QED
  BY <1>8, <1>10

LEMMA CommitCancelAnnounced ==
    ASSUME Announcing, NEW o \in DOMAIN orders, CommitCancel(o)
    PROVE  StepAnnounced /\ EventsFollowOrders'
<1> DEFINE u == orders[o].userId
           public == MarketChanged("order-cancelled", o)
           private == AccountChanged("order-cancelled", o, u)
<1>1. /\ orders' = [orders EXCEPT ![o].status = "CANCELLED"]
      /\ wallets' = [wallets EXCEPT ![u] = wallets'[u]]
      /\ realtimeOutbox' = realtimeOutbox \cup {public, private}
      /\ trades' = trades
      /\ orders[o].status \in ActiveStatuses
  <2>1. u \in Users
    BY OrderRows DEF Announcing, Locked, Order
  <2>2. QED
    BY <2>1 DEF CommitCancel, Announcing, Locked, TypeOK, LockDiscipline, CancelsHeld
<1>2. /\ DOMAIN orders' = DOMAIN orders
      /\ orders[o] \in Order
      /\ orders'[o] = [orders[o] EXCEPT !.status = "CANCELLED"]
      /\ \A x \in DOMAIN orders \ {o} : orders'[x] = orders[x]
  BY <1>1, UpdatedOrder, OrderRows DEF Announcing, Locked, OrderStatus
<1>3. orders'[o].status = "CANCELLED" /\ orders'[o].userId = u
  BY <1>2 DEF Order
<1>4. /\ public.type = "market.changed" /\ public.orderId = o
      /\ public.reason = "order-cancelled"
      /\ private.type = "account.changed" /\ private.orderId = o
      /\ private.reason = "order-cancelled" /\ private.userId = u
  BY DEF MarketChanged, AccountChanged
<1> HIDE DEF public, private
<1>5. /\ public \in realtimeOutbox' \ realtimeOutbox
      /\ private \in realtimeOutbox' \ realtimeOutbox
  <2>1. orders[o].status # "CANCELLED"
    BY <1>1 DEF ActiveStatuses, BookStatuses
  <2>2. QED
    BY <2>1, <1>1, <1>4 DEF Announcing, EventsFollowOrders
<1>6. ASSUME NEW v \in Users, v # u PROVE AccountOf(v)' = AccountOf(v)
  <2>1. wallets'[v] = wallets[v]
    BY <1>1, <1>6 DEF Announcing, Locked, TypeOK
  <2>2. QED
    BY <2>1, <1>2, <1>3, <1>6, AccountKept
<1>7. StepAnnounced
  BY <1>4, <1>5, <1>6 DEF StepAnnounced
<1>8. [Next]_vars
  BY DEF Next
<1>9. EventsFollowOrders'
  BY <1>1, <1>2, <1>3, <1>4, <1>8, OldEventsHold DEF EventsFollowOrders
<1>10. QED
  BY <1>7, <1>9

LEMMA RejectTakerAnnounced ==
    ASSUME Announcing, RejectTaker
    PROVE  StepAnnounced /\ EventsFollowOrders'
<1> DEFINE o == tx.taker
           u == Taker.userId
           event == AccountChanged("order-rejected", o, u)
<1>1. /\ orders' = [orders EXCEPT ![o].status = "REJECTED"]
      /\ wallets' = [wallets EXCEPT ![u] = wallets'[u]]
      /\ realtimeOutbox' = realtimeOutbox \cup {event}
      /\ trades' = trades
      /\ o \in DOMAIN orders /\ u = orders[o].userId
      /\ orders[o].status = "QUEUED"
  BY TakerRow DEF RejectTaker, Announcing, Locked, TypeOK, Taker
<1>2. /\ DOMAIN orders' = DOMAIN orders
      /\ orders[o] \in Order
      /\ orders'[o] = [orders[o] EXCEPT !.status = "REJECTED"]
      /\ \A x \in DOMAIN orders \ {o} : orders'[x] = orders[x]
  BY <1>1, UpdatedOrder, OrderRows DEF Announcing, Locked, OrderStatus
<1>3. orders'[o].status = "REJECTED" /\ orders'[o].userId = u
  BY <1>1, <1>2 DEF Order
<1>4. /\ event.type = "account.changed" /\ event.orderId = o
      /\ event.reason = "order-rejected" /\ event.userId = u
  BY DEF AccountChanged
<1> HIDE DEF o, u, event
<1>5. event \in realtimeOutbox' \ realtimeOutbox
  BY <1>1, <1>4 DEF Announcing, EventsFollowOrders
<1>6. ASSUME NEW v \in Users, v # u PROVE AccountOf(v)' = AccountOf(v)
  <2>1. wallets'[v] = wallets[v]
    BY <1>1, <1>6 DEF Announcing, Locked, TypeOK
  <2>2. QED
    BY <2>1, <1>1, <1>2, <1>3, <1>6, AccountKept
<1>7. MarketView' = MarketView
  BY <1>1, <1>2, <1>3, MarketKept DEF BookStatuses
<1>8. StepAnnounced
  BY <1>4, <1>5, <1>6, <1>7 DEF StepAnnounced
<1>9. [Next]_vars
  BY DEF Next
<1>10. EventsFollowOrders'
  BY <1>1, <1>2, <1>3, <1>4, <1>9, OldEventsHold DEF EventsFollowOrders
<1>11. QED
  BY <1>8, <1>10

LEMMA CommitMatchAnnounced ==
    ASSUME Announcing, CommitMatch
    PROVE  StepAnnounced /\ EventsFollowOrders'
<1> DEFINE t == tx.taker
           matched == draft.trades # <<>>
           reason == IF matched THEN "trade-executed" ELSE "order-opened"
           public == MarketChanged(reason, t)
           private(u) == AccountChanged(reason, t, u)
<1>1. /\ tx.phase = "settle" /\ t \in DOMAIN orders
      /\ orders[t].status = "QUEUED" /\ Taker = orders[t]
      /\ orders[t] \in Order
      /\ wallets' = SeenWallets
      /\ realtimeOutbox' = realtimeOutbox \cup {public}
                              \cup {private(u) : u \in AffectedUserIds}
  BY TakerRow DEF CommitMatch, Announcing, Locked, LockDiscipline, TakerHeld
<1>2. /\ DOMAIN orders' = DOMAIN orders
      /\ orders'[t] = AfterTrades(orders[t], tx.remaining, matched)
      /\ \A o \in DOMAIN orders \ {t} : orders'[o] = SeenOrders[o]
  BY <1>1, MatchedOrders DEF Announcing
<1>3. orders'[t].status \notin {"QUEUED", "CANCELLED"}
  BY <1>1, <1>2 DEF AfterTrades, Order
<1>4. /\ reason \notin {"order-created", "order-cancelled"}
      /\ public.type = "market.changed" /\ public.orderId = t
      /\ public.reason = reason
      /\ \A u : /\ private(u).type = "account.changed"
                /\ private(u).userId = u
                /\ private(u).orderId = t
                /\ private(u).reason = reason
  BY DEF MarketChanged, AccountChanged
<1> HIDE DEF t, matched, reason, public, private
<1>5. /\ public \in realtimeOutbox' \ realtimeOutbox
      /\ \A u \in AffectedUserIds :
            private(u) \in realtimeOutbox' \ realtimeOutbox
  BY <1>1, <1>4 DEF Announcing, EventsFollowOrders
<1>6. ASSUME NEW u \in Users, u \notin AffectedUserIds
      PROVE  AccountOf(u)' = AccountOf(u)
  <2>1. wallets'[u] = wallets[u]
    BY <1>1, <1>6
       DEF SeenWallets, Overlay, AffectedUserIds, Announcing, Locked, TypeOK
  <2>2. ASSUME NEW o \in DOMAIN orders
        PROVE  /\ orders'[o].userId = orders[o].userId
               /\ orders[o].userId = u => orders'[o] = orders[o]
    <3>0. orders[o] \in Order
      BY OrderRows DEF Announcing, Locked
    <3>1. CASE o = t
      BY <3>1, <1>1, <1>2, <1>6, <3>0 DEF AfterTrades, Order, AffectedUserIds
    <3>2. CASE o # t /\ o \in DOMAIN draft.orders
      <4>1. orders'[o] = AfterTrades(orders[o],
                            draft.orders[o].remainingAmount, TRUE)
        BY <3>2, <1>2 DEF SeenOrders, Overlay, Announcing, Locked,
                          LockDiscipline, DraftHeld
      <4>2. orders'[o].userId = orders[o].userId
        BY <4>1, <3>0 DEF AfterTrades, Order
      <4>3. orders[o].userId \in AffectedUserIds
        BY <3>2 DEF Announcing, DraftedMakers, AffectedUserIds
      <4>4. QED
        BY <4>2, <4>3, <1>6
    <3>3. CASE o # t /\ o \notin DOMAIN draft.orders
      BY <3>3, <1>2 DEF SeenOrders, Overlay
    <3>4. QED
      BY <3>1, <3>2, <3>3
  <2>3. QED
    BY <2>1, <2>2, <1>2, AccountKept
<1>7. StepAnnounced
  BY <1>4, <1>5, <1>6 DEF StepAnnounced
<1>8. [Next]_vars
  BY DEF Next
<1>9. EventsFollowOrders'
  <2>1. ASSUME NEW e \in realtimeOutbox' \ realtimeOutbox
        PROVE  e.orderId = t /\ e.reason = reason
    BY <1>1, <1>4
  <2>2. QED
    BY <2>1, <1>1, <1>2, <1>3, <1>4, <1>8, OldEventsHold DEF EventsFollowOrders
<1>10. QED
  BY <1>7, <1>9

LEMMA StepsAnnounced ==
    ASSUME Announcing, [Next]_vars
    PROVE  StepAnnounced /\ EventsFollowOrders'
<1>1. CASE SettleMaker \/ QuietStep
  <2>1. UNCHANGED <<orders, wallets, trades, realtimeOutbox>>
    BY <1>1 DEF SettleMaker, QuietStep
  <2>2. QED
    BY <2>1 DEF StepAnnounced, AccountOf, MarketView, EventsFollowOrders,
                Announcing
<1>2. QED
  BY <1>1, StepKinds, CreateOrderAnnounced, CommitCancelAnnounced,
     RejectTakerAnnounced, CommitMatchAnnounced DEF Announcing

LEMMA AlwaysAnnouncing == Spec => []Announcing
<1>1. Init => Announcing
  BY InitLocked, NoDraftedOrders
     DEF Init, Announcing, DraftedMakers, EventsFollowOrders
<1>2. Announcing /\ [Next]_vars => Announcing'
  BY NextLocked, NextDrafted, StepsAnnounced DEF Announcing
<1>3. QED
  BY <1>1, <1>2, PTL DEF Spec

\* No commit that changes what a user's account or the market shows is without
\* a new event for that user or for the market: createOrder, cancelOrder,
\* processOrder and rejectOrderAfterFailedProcessing store theirs in the
\* transaction that makes the change, and none repeats an event.
THEOREM ChangesAreAnnounced == Spec => EveryChangeAnnounced
<1>1. Announcing /\ [Next]_vars => [StepAnnounced]_vars
  BY StepsAnnounced
<1>2. QED
  BY <1>1, AlwaysAnnouncing, PTL DEF Spec, EveryChangeAnnounced, StepAnnounced

-----------------------------------------------------------------------------
(* Selection plans what settlement does *)

\* What is left of the taker before each maker still to be settled, and after
\* the last one.
IsPlan(left) ==
    /\ left \in [0..Len(tx.makers) -> Money]
    /\ left[0] = tx.remaining
    /\ left[Len(tx.makers)] = tx.toCover
    /\ \A i \in DOMAIN tx.makers :
          left[i] = left[i - 1]
                      - Cover(Lesser(left[i - 1], tx.makers[i].remainingAmount),
                              orders[tx.makers[i].id].price)

\* Settlement trades with each maker what selection counted on, because it meets
\* them in the same order with the same amounts left: toCover, which ended the
\* search, is what the taker will have left.
CoverAgrees == tx.phase \in MatchingPhases => \E left : IsPlan(left)

LEMMA MakersSeq ==
    ASSUME Locked
    PROVE  /\ tx.makers \in Seq(Maker) /\ Len(tx.makers) \in Nat
           /\ DOMAIN tx.makers = 1..Len(tx.makers)
           /\ \A i \in DOMAIN tx.makers :
                 /\ tx.makers[i].id \in tx.locks
                 /\ tx.makers[i].id \in DOMAIN orders
                 /\ tx.makers[i].remainingAmount \in Money
                 /\ orders[tx.makers[i].id].price \in Money
<1>1. /\ tx.makers \in Seq(Maker) /\ Len(tx.makers) \in Nat
      /\ DOMAIN tx.makers = 1..Len(tx.makers)
  BY DEF Locked, TypeOK, Transaction
<1>2. ASSUME NEW i \in DOMAIN tx.makers
      PROVE  /\ tx.makers[i].id \in tx.locks
             /\ tx.makers[i].id \in DOMAIN orders
             /\ tx.makers[i].remainingAmount \in Money
             /\ orders[tx.makers[i].id].price \in Money
  <2>1. tx.makers[i] \in Maker
    BY <1>1
  <2>2. tx.makers[i].id \in tx.locks /\ tx.makers[i].id \in DOMAIN orders
    BY DEF Locked, LockDiscipline, MakersHeld, CursorHeld
  <2>3. orders[tx.makers[i].id] \in Order
    BY <2>2, OrderRows DEF Locked
  <2>4. QED
    BY <2>1, <2>2, <2>3 DEF Maker, Order
<1>3. QED
  BY <1>1, <1>2

\* A step that keeps the makers, the amounts and the locked rows keeps the plan.
LEMMA CoverKept ==
    ASSUME Locked, CoverAgrees,
           tx'.phase \in MatchingPhases => tx.phase \in MatchingPhases,
           tx'.makers = tx.makers, tx'.remaining = tx.remaining,
           tx'.toCover = tx.toCover,
           \A o \in tx.locks : orders'[o] = orders[o]
    PROVE  CoverAgrees'
<1>1. ASSUME NEW left, IsPlan(left) PROVE IsPlan(left)'
  BY <1>1, MakersSeq DEF IsPlan
<1>2. QED
  BY <1>1 DEF CoverAgrees

LEMMA LockTakerCovers ==
    ASSUME Locked, LockTaker
    PROVE  CoverAgrees'
<1>0. PICK left : left = [i \in 0..0 |-> Taker.remainingAmount]
  OBVIOUS
<1>1. /\ tx \in Transaction /\ tx.phase = "process" /\ orders' = orders
      /\ tx.makers = <<>>
      /\ tx' = [tx EXCEPT !.phase = "select",
                          !.remaining = Taker.remainingAmount,
                          !.toCover = Taker.remainingAmount,
                          !.locks = {tx.taker}]
  BY DEF LockTaker, Locked, TypeOK, LockDiscipline, CursorHeld
<1>2. /\ tx'.makers = <<>> /\ tx'.remaining = Taker.remainingAmount
      /\ tx'.toCover = Taker.remainingAmount
      /\ Len(tx'.makers) = 0 /\ DOMAIN tx'.makers = {}
  BY <1>1 DEF Transaction
<1>3. Taker.remainingAmount \in Money
  BY <1>1, TakerRow
<1>4. IsPlan(left)'
  BY <1>0, <1>2, <1>3 DEF IsPlan
<1>5. QED
  BY <1>4 DEF CoverAgrees

LEMMA LockCandidateCovers ==
    ASSUME Locked, CoverAgrees, LockCandidate
    PROVE  CoverAgrees'
<1> DEFINE maker == orders[tx.cursor]
           n == Len(tx.makers)
           found == [id |-> tx.cursor, remainingAmount |-> maker.remainingAmount]
           covered == Cover(Lesser(tx.toCover, maker.remainingAmount), maker.price)
<1>1. /\ tx \in Transaction /\ tx.phase = "lock" /\ orders' = orders
      /\ tx.cursor \in DOMAIN orders /\ maker \in Order
      /\ tx.toCover \in Money /\ maker.remainingAmount \in Money
      /\ maker.price \in Money
  BY OrderRows DEF LockCandidate, Locked, TypeOK, LockDiscipline, CursorHeld,
                   Transaction, Order
<1>2. CASE ~IsEligibleMaker(Taker, maker)
  <2>1. /\ tx'.makers = tx.makers /\ tx'.remaining = tx.remaining
        /\ tx'.toCover = tx.toCover
    BY <1>1, <1>2 DEF LockCandidate, Transaction
  <2>2. QED
    BY <1>1, <2>1, CoverKept
<1>3. CASE IsEligibleMaker(Taker, maker)
  <2>1. /\ tx'.makers = Append(tx.makers, found)
        /\ tx'.remaining = tx.remaining
        /\ tx'.toCover = tx.toCover - covered
    BY <1>1, <1>3 DEF LockCandidate, Transaction
  <2>2. tx.toCover - covered \in Money
    BY <1>1, CoverType
  <2>3. /\ n \in Nat /\ DOMAIN tx.makers = 1..n
        /\ Len(tx'.makers) = n + 1 /\ DOMAIN tx'.makers = 1..(n + 1)
        /\ tx'.makers[n + 1].id = tx.cursor
        /\ tx'.makers[n + 1].remainingAmount = maker.remainingAmount
        /\ \A i \in 1..n : tx'.makers[i] = tx.makers[i]
    BY <2>1, MakersSeq, <1>1 DEF Transaction
  <2>4. PICK left : IsPlan(left)
    BY <1>1 DEF CoverAgrees
  <2>m. PICK more : more = [i \in 0..(n + 1) |->
                        IF i = n + 1 THEN tx.toCover - covered ELSE left[i]]
    OBVIOUS
  <2>5. /\ left \in [0..n -> Money]
        /\ left[0] = tx.remaining /\ left[n] = tx.toCover
        /\ \A i \in 1..n : left[i] = left[i - 1]
              - Cover(Lesser(left[i - 1], tx.makers[i].remainingAmount),
                      orders[tx.makers[i].id].price)
    BY <2>3, <2>4 DEF IsPlan
  <2> HIDE DEF n, covered
  <2>6. /\ more \in [0..(n + 1) -> Money]
        /\ more[0] = tx.remaining
        /\ more[n] = tx.toCover
        /\ more[n + 1] = tx.toCover - covered
        /\ \A i \in 1..n : more[i] = left[i] /\ more[i - 1] = left[i - 1]
    BY <2>2, <2>3, <2>5, <2>m
  <2>7. ASSUME NEW i \in 1..(n + 1)
        PROVE  more[i] = more[i - 1]
                  - Cover(Lesser(more[i - 1], tx'.makers[i].remainingAmount),
                          orders[tx'.makers[i].id].price)
    <3>1. CASE i \in 1..n
      BY <3>1, <2>3, <2>5, <2>6
    <3>2. CASE i = n + 1
      <4>1. i - 1 = n
        BY <3>2, <2>3
      <4>2. QED
        BY <3>2, <4>1, <2>3, <2>6 DEF covered
    <3>3. QED
      BY <3>1, <3>2, <2>3
  <2>8. IsPlan(more)'
    BY <1>1, <2>1, <2>3, <2>6, <2>7 DEF IsPlan
  <2>9. QED
    BY <2>8 DEF CoverAgrees
<1>4. QED
  BY <1>2, <1>3

\* The maker at the head takes what it was counted for, or is dust in both
\* places.
LEMMA HeadCovers ==
    ASSUME Locked, CoverAgrees, Settling, orders' = orders,
           tx'.makers = Tail(tx.makers), tx'.toCover = tx.toCover,
           tx'.remaining = tx.remaining - Cover(TradeAmount, TradePrice)
    PROVE  CoverAgrees'
<1> DEFINE n == Len(tx.makers)
<1>1. /\ n \in Nat /\ DOMAIN tx.makers = 1..n
      /\ tx.makers \in Seq(Maker) /\ tx.makers # <<>>
  BY MakersSeq DEF Settling
<1>2. /\ n > 0
      /\ Len(tx'.makers) = n - 1 /\ DOMAIN tx'.makers = 1..(n - 1)
      /\ \A i \in 1..(n - 1) : tx'.makers[i] = tx.makers[i + 1]
      /\ NextMaker = tx.makers[1]
  BY <1>1 DEF NextMaker
<1>3. PICK left : IsPlan(left)
  BY DEF CoverAgrees, Settling
<1>m. PICK less : less = [i \in 0..(n - 1) |-> left[i + 1]]
  OBVIOUS
<1>4. /\ left \in [0..n -> Money]
      /\ left[0] = tx.remaining /\ left[n] = tx.toCover
      /\ \A i \in 1..n : left[i] = left[i - 1]
            - Cover(Lesser(left[i - 1], tx.makers[i].remainingAmount),
                    orders[tx.makers[i].id].price)
  BY <1>1, <1>3 DEF IsPlan
<1> HIDE DEF n
<1>5. left[1] = tx'.remaining
  <2>1. left[1] = left[1 - 1]
           - Cover(Lesser(left[1 - 1], tx.makers[1].remainingAmount),
                   orders[tx.makers[1].id].price)
    BY <1>1, <1>2, <1>4
  <2>2. left[1 - 1] = tx.remaining
    BY <1>4
  <2>3. QED
    BY <1>2, <2>1, <2>2 DEF TradeAmount, TradePrice
<1>6. /\ less \in [0..(n - 1) -> Money]
      /\ less[0] = tx'.remaining
      /\ less[n - 1] = tx'.toCover
  BY <1>1, <1>2, <1>4, <1>5, <1>m
<1>7. ASSUME NEW i \in 1..(n - 1)
      PROVE  less[i] = less[i - 1]
                - Cover(Lesser(less[i - 1], tx'.makers[i].remainingAmount),
                        orders[tx'.makers[i].id].price)
  <2>1. /\ i + 1 \in 1..n /\ i + 1 - 1 = i /\ i - 1 + 1 = i
        /\ i \in 0..(n - 1) /\ i - 1 \in 0..(n - 1)
    BY <1>1
  <2>2. less[i] = left[i + 1] /\ less[i - 1] = left[i]
    BY <2>1, <1>m
  <2>3. left[i + 1] = left[i]
           - Cover(Lesser(left[i], tx.makers[i + 1].remainingAmount),
                   orders[tx.makers[i + 1].id].price)
    BY <2>1, <1>4
  <2>4. QED
    BY <2>2, <2>3, <1>2
<1>8. IsPlan(less)'
  BY <1>2, <1>6, <1>7 DEF IsPlan
<1>9. QED
  BY <1>8 DEF CoverAgrees

LEMMA SkipDustCovers ==
    ASSUME Locked, CoverAgrees, SkipDust
    PROVE  CoverAgrees'
<1>1. /\ Settling /\ orders' = orders
      /\ tx'.makers = Tail(tx.makers) /\ tx'.remaining = tx.remaining
      /\ tx'.toCover = tx.toCover
      /\ tx.remaining \in Nat
  BY DecimalsAssumption DEF SkipDust, Locked, TypeOK, Transaction, Money
<1>2. Cover(TradeAmount, TradePrice) = 0
  BY DEF SkipDust, ExecutedCost, Cover
<1>3. tx'.remaining = tx.remaining - Cover(TradeAmount, TradePrice)
  BY <1>1, <1>2
<1>4. QED
  BY <1>1, <1>3, HeadCovers

LEMMA SettleMakerCovers ==
    ASSUME Locked, CoverAgrees, SettleMaker
    PROVE  CoverAgrees'
<1>1. /\ Settling /\ orders' = orders
      /\ tx'.makers = Tail(tx.makers)
      /\ tx'.remaining = tx.remaining - TradeAmount
      /\ tx'.toCover = tx.toCover
  BY DEF SettleMaker, Locked, TypeOK, Transaction
<1>2. Cover(TradeAmount, TradePrice) = TradeAmount
  BY DEF SettleMaker, ExecutedCost, Cover
<1>3. QED
  BY <1>1, <1>2, HeadCovers

LEMMA NextCovers ==
    ASSUME Locked, CoverAgrees, [Next]_vars
    PROVE  CoverAgrees'
<1>1. ASSUME NEW u \in Users, NEW form \in OrderForms, CreateOrder(u, form)
      PROVE  CoverAgrees'
  <2>1. QueuedOrder(u, form) \in Order
    BY RowsAssumption DEF QueuedOrder, Order, OrderStatus, ActiveStatuses
  <2>2. orders' = Append(orders, QueuedOrder(u, form)) /\ tx' = tx
    BY <1>1 DEF CreateOrder
  <2>3. \A o \in tx.locks : orders'[o] = orders[o]
    BY <2>1, <2>2, AppendedOrder DEF Locked, LockDiscipline, CursorHeld
  <2>4. QED
    BY <2>2, <2>3, CoverKept
<1>2. ASSUME NEW o \in DOMAIN orders, CommitCancel(o)
      PROVE  CoverAgrees'
  <2>1. /\ o \notin tx.locks /\ tx' = tx
        /\ orders' = [orders EXCEPT ![o].status = "CANCELLED"]
    BY <1>2 DEF CommitCancel, Locked, LockDiscipline, CancelsHeld
  <2>2. \A x \in tx.locks : orders'[x] = orders[x]
    BY <2>1, UpdatedOrder DEF Locked, LockDiscipline, CursorHeld, OrderStatus
  <2>3. QED
    BY <2>1, <2>2, CoverKept
<1>3. ASSUME NEW o \in DOMAIN orders,
             LockForCancel(o) \/ RefuseCancel(o) \/ AbortCancel(o)
      PROVE  CoverAgrees'
  <2>1. tx' = tx /\ orders' = orders
    BY <1>3 DEF LockForCancel, RefuseCancel, AbortCancel
  <2>2. QED
    BY <2>1, CoverKept
<1>4. ASSUME NEW o \in DOMAIN orders,
             LockMarket(o, "process") \/ LockMarket(o, "reject")
      PROVE  CoverAgrees'
  BY <1>4 DEF LockMarket, Idle, CoverAgrees
<1>5. CASE \/ SkipProcessed \/ RejectTaker \/ CommitMatch
           \/ RefuseSettlement \/ RefuseRejection \/ Rollback
  <2>1. tx'.phase = "idle"
    BY <1>5 DEF SkipProcessed, RejectTaker, CommitMatch, RefuseSettlement,
                RefuseRejection, Rollback, Undo, Idle
  <2>2. QED
    BY <2>1 DEF CoverAgrees
<1>6. CASE LockTaker
  BY <1>6, LockTakerCovers
<1>7. CASE FindCandidate \/ EndSelection
  <2>1. /\ tx'.makers = tx.makers /\ tx'.remaining = tx.remaining
        /\ tx'.toCover = tx.toCover /\ tx.phase = "select"
        /\ orders' = orders
    BY <1>7 DEF FindCandidate, EndSelection, Locked, TypeOK, Transaction
  <2>2. QED
    BY <2>1, CoverKept
<1>8. CASE LockCandidate
  BY <1>8, LockCandidateCovers
<1>9. CASE SkipDust
  BY <1>9, SkipDustCovers
<1>10. CASE SettleMaker
  BY <1>10, SettleMakerCovers
<1>11. CASE UNCHANGED vars
  BY <1>11, CoverKept DEF vars
<1>12. QED
  BY <1>1, <1>2, <1>3, <1>4, <1>5, <1>6, <1>7, <1>8, <1>9, <1>10, <1>11
     DEF Next

-----------------------------------------------------------------------------
(* No opposing order is overlooked *)

\* The maker waits to be settled.
Listed(m) == \E i \in DOMAIN tx.makers : tx.makers[i].id = m

\* What the taker and the maker have left, of the maker's row as drafted, is not
\* worth one unit of USD at the maker's price.
Unpayable(m) ==
    MultiplyScaled(Lesser(tx.remaining, SeenOrders[m].remainingAmount),
                   orders[m].price) = 0

\* Every order that opposes the taker waits to be settled, or nothing can be
\* traded with it any more, or the search has yet to come to it; the search ends
\* before the last one only when the taker is covered.
NoneOverlooked ==
    tx.phase \in MatchingPhases =>
        \A m \in DOMAIN orders :
            Opposes(Taker, orders[m]) /\ orders[m].status \in BookStatuses =>
                \/ Listed(m)
                \/ Unpayable(m)
                \/ tx.phase = "settle" /\ tx.toCover = 0
                \/ /\ tx.phase # "settle"
                   /\ tx.cursor # 0 => Ahead(orders, Taker.side, tx.cursor, m)
                \/ tx.phase = "lock" /\ m = tx.cursor

\* Of nothing there is nothing to pay.
LEMMA NothingUnpayable ==
    ASSUME NEW a \in Nat, NEW b \in Nat, NEW p \in Nat, a = 0 \/ b = 0
    PROVE  MultiplyScaled(Lesser(a, b), p) = 0
<1>1. Lesser(a, b) = 0
  BY DEF Lesser
<1>2. QED
  BY <1>1, MultiplyScaledZero

\* What is worth less than a unit stays so when either side shrinks.
LEMMA StillUnpayable ==
    ASSUME NEW a \in Nat, NEW b \in Nat, NEW c \in Nat, NEW d \in Nat,
           NEW p \in Nat, NEW q \in Nat, c <= a, d <= b, q <= p,
           MultiplyScaled(Lesser(a, b), p) = 0
    PROVE  MultiplyScaled(Lesser(c, d), q) = 0
<1>1. /\ Lesser(a, b) \in Nat /\ Lesser(c, d) \in Nat
      /\ Lesser(c, d) <= Lesser(a, b)
  BY DEF Lesser
<1> DEFINE x == Lesser(c, d)
           y == Lesser(a, b)
<1>2. x \in Nat /\ y \in Nat /\ x <= y
  BY <1>1
<1>3. MultiplyScaled(y, p) = 0
  OBVIOUS
<1> HIDE DEF x, y
<1>4. MultiplyScaled(x, p) <= MultiplyScaled(y, p)
  BY <1>2, CostMonotoneInAmount
<1>5. MultiplyScaled(x, q) <= MultiplyScaled(x, p)
  BY <1>2, CostMonotoneInPrice
<1>6. MultiplyScaled(x, p) \in Nat /\ MultiplyScaled(x, q) \in Nat
  BY <1>2, MultiplyScaledNat
<1>7. MultiplyScaled(x, q) = 0
  BY <1>3, <1>4, <1>5, <1>6
<1>8. QED
  BY <1>7 DEF x

\* While others commit, the orders on the book that oppose the taker are orders
\* that were on it, with rows as they were.
LEMMA OverlookedKept ==
    ASSUME Locked, NoneOverlooked, tx' = tx, draft' = draft,
           \A o \in tx.locks : orders'[o] = orders[o],
           \A o \in DOMAIN orders : orders'[o].price = orders[o].price,
           \A o \in DOMAIN orders' :
              \/ orders'[o].status \notin BookStatuses
              \/ o \in DOMAIN orders /\ orders'[o] = orders[o]
    PROVE  NoneOverlooked'
<1> SUFFICES ASSUME tx.phase \in MatchingPhases, NEW m \in DOMAIN orders',
                    Opposes(Taker', orders'[m]),
                    orders'[m].status \in BookStatuses
             PROVE  \/ Listed(m)'
                    \/ Unpayable(m)'
                    \/ tx.phase = "settle" /\ tx.toCover = 0
                    \/ /\ tx.phase # "settle"
                       /\ tx.cursor # 0
                             => Ahead(orders', Taker'.side, tx.cursor, m)
                    \/ tx.phase = "lock" /\ m = tx.cursor
  BY DEF NoneOverlooked
<1>1. m \in DOMAIN orders /\ orders'[m] = orders[m]
  OBVIOUS
<1>2. Taker' = Taker
  BY DEF Taker, Locked, LockDiscipline, TakerHeld
<1>3. \/ Listed(m)
      \/ Unpayable(m)
      \/ tx.phase = "settle" /\ tx.toCover = 0
      \/ /\ tx.phase # "settle"
         /\ tx.cursor # 0 => Ahead(orders, Taker.side, tx.cursor, m)
      \/ tx.phase = "lock" /\ m = tx.cursor
  BY <1>1, <1>2 DEF NoneOverlooked
<1>4. Listed(m)' = Listed(m)
  BY DEF Listed
<1>5. Unpayable(m)' = Unpayable(m)
  BY <1>1 DEF Unpayable, SeenOrders, Overlay
<1>6. CASE tx.phase # "settle" /\ tx.cursor # 0
  <2>1. ASSUME Ahead(orders, Taker.side, tx.cursor, m)
        PROVE  Ahead(orders', Taker.side, tx.cursor, m)
    <3>1. tx.cursor \in DOMAIN orders
      BY <1>6 DEF Locked, LockDiscipline, CursorHeld
    <3>2. orders'[tx.cursor].price = orders[tx.cursor].price
      BY <3>1
    <3>3. QED
      BY <2>1, <3>2, <1>1 DEF Ahead
  <2>2. QED
    BY <2>1, <1>2, <1>3, <1>4, <1>5
<1>7. CASE ~(tx.phase # "settle" /\ tx.cursor # 0)
  BY <1>2, <1>3, <1>4, <1>5, <1>7
<1>8. QED
  BY <1>6, <1>7

LEMMA FindCandidateOverlooks ==
    ASSUME Locked, NoneOverlooked, FindCandidate
    PROVE  NoneOverlooked'
<1>1. PICK c \in Candidates :
         /\ \A m \in Candidates \ {c} : Ahead(orders, Taker.side, c, m)
         /\ tx' = [tx EXCEPT !.phase = "lock", !.cursor = c]
  BY DEF FindCandidate
<1>2. /\ tx.phase = "select" /\ tx'.phase = "lock" /\ tx'.cursor = c
      /\ tx'.taker = tx.taker /\ tx'.remaining = tx.remaining
      /\ tx'.makers = tx.makers /\ orders' = orders /\ draft' = draft
      /\ Taker' = Taker
  BY <1>1 DEF FindCandidate, Locked, TypeOK, Transaction, Taker
<1>3. ASSUME NEW m \in DOMAIN orders, Opposes(Taker, orders[m]),
             orders[m].status \in BookStatuses
      PROVE  \/ Listed(m) \/ Unpayable(m) \/ m = c
             \/ Ahead(orders, Taker.side, c, m)
  BY <1>1, <1>2, <1>3 DEF NoneOverlooked, Candidates
<1>4. \A m : Listed(m)' = Listed(m) /\ Unpayable(m)' = Unpayable(m)
  BY <1>2 DEF Listed, Unpayable, SeenOrders, Overlay
<1>5. QED
  BY <1>2, <1>3, <1>4 DEF NoneOverlooked

LEMMA LockCandidateOverlooks ==
    ASSUME Locked, NoneOverlooked, LockCandidate
    PROVE  NoneOverlooked'
<1>c. PICK c : c = tx.cursor
  OBVIOUS
<1> DEFINE found == [id |-> c, remainingAmount |-> orders[c].remainingAmount]
<1>1. /\ tx.phase = "lock" /\ tx'.phase = "select" /\ tx'.cursor = c
      /\ tx'.taker = tx.taker /\ tx'.remaining = tx.remaining
      /\ orders' = orders /\ draft' = draft
      /\ Taker' = Taker /\ c # 0 /\ c \in DOMAIN orders
      /\ orders[c] \in Order
      /\ draft = NoWrites /\ tx.remaining \in Money
      /\ tx'.makers = IF IsEligibleMaker(Taker, orders[c])
                      THEN Append(tx.makers, found) ELSE tx.makers
  BY <1>c, OrderRows DEF LockCandidate, Locked, TypeOK, Transaction, LockDiscipline,
                   CursorHeld, DraftHeld, Taker
<1>2. /\ \A m : Listed(m) => Listed(m)'
      /\ IsEligibleMaker(Taker, orders[c]) => Listed(c)'
  <2>1. /\ Len(tx.makers) \in Nat /\ DOMAIN tx.makers = 1..Len(tx.makers)
        /\ tx.makers \in Seq(Maker)
    BY MakersSeq
  <2>2. CASE IsEligibleMaker(Taker, orders[c])
    <3>1. /\ DOMAIN tx'.makers = 1..(Len(tx.makers) + 1)
          /\ tx'.makers[Len(tx.makers) + 1] = found
          /\ \A i \in 1..Len(tx.makers) : tx'.makers[i] = tx.makers[i]
      BY <1>1, <2>1, <2>2
    <3>2. found.id = c
      OBVIOUS
    <3>3. /\ \A i \in DOMAIN tx.makers : i \in DOMAIN tx'.makers
          /\ Len(tx.makers) + 1 \in DOMAIN tx'.makers
      BY <3>1, <2>1
    <3> HIDE DEF found
    <3>4. QED
      BY <3>1, <3>2, <3>3, <2>1 DEF Listed
  <2>3. CASE ~IsEligibleMaker(Taker, orders[c])
    BY <2>3, <1>1 DEF Listed
  <2>4. QED
    BY <2>2, <2>3
<1>3. \A m : Unpayable(m)' = Unpayable(m)
  BY <1>1 DEF Unpayable, SeenOrders, Overlay
<1>4. ASSUME Opposes(Taker, orders[c]), orders[c].status \in BookStatuses,
             ~IsEligibleMaker(Taker, orders[c])
      PROVE  Unpayable(c)
  <2>1. /\ orders[c].remainingAmount \in Nat /\ orders[c].price \in Nat
        /\ tx.remaining \in Nat
    BY <1>1, MoneyNat DEF Order
  <2>2. orders[c].remainingAmount = 0
    BY <1>4, <2>1 DEF IsEligibleMaker
  <2>3. SeenOrders[c] = orders[c]
    BY <1>1, NoDraftedOrders DEF SeenOrders, Overlay
  <2>4. QED
    BY <2>1, <2>2, <2>3, NothingUnpayable DEF Unpayable
<1>5. ASSUME NEW m \in DOMAIN orders, Opposes(Taker, orders[m]),
             orders[m].status \in BookStatuses
      PROVE  \/ Listed(m)' \/ Unpayable(m)
             \/ Ahead(orders, Taker.side, c, m)
  <2>1. CASE m = c
    BY <2>1, <1>2, <1>4, <1>5
  <2>2. CASE m # c
    BY <2>2, <1>1, <1>2, <1>5, <1>c DEF NoneOverlooked
  <2>3. QED
    BY <2>1, <2>2
<1>6. QED
  BY <1>1, <1>3, <1>5 DEF NoneOverlooked

LEMMA EndSelectionOverlooks ==
    ASSUME Locked, NoneOverlooked, EndSelection
    PROVE  NoneOverlooked'
<1>1. /\ tx.phase = "select" /\ tx'.phase = "settle"
      /\ tx'.taker = tx.taker /\ tx'.remaining = tx.remaining
      /\ tx'.makers = tx.makers /\ tx'.toCover = tx.toCover
      /\ orders' = orders /\ draft' = draft
      /\ Taker' = Taker
      /\ tx.toCover = 0 \/ Candidates = {}
  BY DEF EndSelection, Locked, TypeOK, Transaction, Taker
<1>2. \A m : Listed(m)' = Listed(m) /\ Unpayable(m)' = Unpayable(m)
  BY <1>1 DEF Listed, Unpayable, SeenOrders, Overlay
<1>3. ASSUME NEW m \in DOMAIN orders, Opposes(Taker, orders[m]),
             orders[m].status \in BookStatuses, tx.toCover # 0
      PROVE  Listed(m) \/ Unpayable(m)
  <2>1. m \notin Candidates
    BY <1>1, <1>3
  <2>2. QED
    BY <1>1, <1>3, <2>1 DEF NoneOverlooked, Candidates
<1>4. QED
  BY <1>1, <1>2, <1>3 DEF NoneOverlooked

\* Amounts left never grow in a settlement.
LEMMA SeenRemaining ==
    ASSUME Locked, DraftedMakers, NEW m \in DOMAIN orders
    PROVE  /\ SeenOrders[m].remainingAmount \in Nat
           /\ SeenOrders[m].remainingAmount <= orders[m].remainingAmount
           /\ orders[m].remainingAmount \in Nat
           /\ orders[m].price \in Nat
<1>1. orders[m] \in Order
  BY OrderRows DEF Locked
<1>2. orders[m].remainingAmount \in Nat /\ orders[m].price \in Nat
  BY <1>1, MoneyNat DEF Order
<1>3. CASE m \in DOMAIN draft.orders
  <2>1. /\ SeenOrders[m] = draft.orders[m]
        /\ draft.orders[m] \in Order
        /\ draft.orders[m].remainingAmount <= orders[m].remainingAmount
    BY <1>3 DEF SeenOrders, Overlay, DraftedMakers, Locked, TypeOK
  <2>2. QED
    BY <2>1, <1>2, MoneyNat DEF Order
<1>4. CASE m \notin DOMAIN draft.orders
  <2>1. SeenOrders[m] = orders[m]
    BY <1>4 DEF SeenOrders, Overlay
  <2>2. QED
    BY <2>1, <1>2
<1>5. QED
  BY <1>3, <1>4

\* The head of the makers is settled, or is dust: nothing can be traded with it
\* any more.
LEMMA HeadOverlooks ==
    ASSUME Locked, DraftedMakers, NoneOverlooked, Settling,
           orders' = orders, tx'.phase = "settle", tx'.taker = tx.taker,
           tx'.makers = Tail(tx.makers), tx'.toCover = tx.toCover,
           tx'.remaining \in Nat, tx'.remaining <= tx.remaining,
           NEW head, head = NextMaker.id, Unpayable(head)',
           \A m \in DOMAIN orders \ {head} : SeenOrders'[m] = SeenOrders[m]
    PROVE  NoneOverlooked'
<1>1. /\ tx.phase = "settle" /\ Taker' = Taker
      /\ tx.makers \in Seq(Maker) /\ tx.makers # <<>>
      /\ tx.remaining \in Nat
  BY MakersSeq, MoneyNat DEF Settling, Taker, Locked, TypeOK, Transaction
<1>2. ASSUME NEW m, Listed(m), m # head
      PROVE  Listed(m)'
  <2>1. PICK i \in DOMAIN tx.makers : tx.makers[i].id = m
    BY <1>2 DEF Listed
  <2>2. /\ DOMAIN tx.makers = 1..Len(tx.makers) /\ Len(tx.makers) \in Nat
        /\ NextMaker = tx.makers[1]
        /\ DOMAIN tx'.makers = 1..(Len(tx.makers) - 1)
        /\ \A j \in 1..(Len(tx.makers) - 1) : tx'.makers[j] = tx.makers[j + 1]
    BY <1>1 DEF NextMaker
  <2>3. i # 1
    BY <1>2, <2>1, <2>2
  <2>4. /\ i - 1 \in DOMAIN tx'.makers
        /\ i - 1 + 1 = i
    BY <2>1, <2>2, <2>3
  <2>5. tx'.makers[i - 1].id = m
    BY <2>1, <2>2, <2>4
  <2>6. QED
    BY <2>4, <2>5 DEF Listed
<1>3. ASSUME NEW m \in DOMAIN orders, Unpayable(m), m # head
      PROVE  Unpayable(m)'
  <2>1. /\ SeenOrders'[m] = SeenOrders[m]
        /\ SeenOrders[m].remainingAmount \in Nat /\ orders[m].price \in Nat
    BY <1>3, SeenRemaining
  <2>2. SeenOrders[m].remainingAmount <= SeenOrders[m].remainingAmount
    BY <2>1
  <2>3. orders[m].price <= orders[m].price
    BY <2>1
  <2>4. QED
    BY <1>1, <1>3, <2>1, <2>2, <2>3, StillUnpayable DEF Unpayable
<1>4. ASSUME NEW m \in DOMAIN orders, Opposes(Taker, orders[m]),
             orders[m].status \in BookStatuses
      PROVE  Listed(m)' \/ Unpayable(m)' \/ tx.toCover = 0
  BY <1>1, <1>2, <1>3, <1>4 DEF NoneOverlooked
<1>5. QED
  BY <1>1, <1>4 DEF NoneOverlooked

LEMMA SkipDustOverlooks ==
    ASSUME Locked, DraftedMakers, NoneOverlooked, SkipDust
    PROVE  NoneOverlooked'
<1>m. PICK m : m = NextMaker.id
  OBVIOUS
<1>1. /\ Settling /\ orders' = orders /\ draft' = draft
      /\ tx'.phase = "settle" /\ tx'.taker = tx.taker
      /\ tx'.makers = Tail(tx.makers) /\ tx'.toCover = tx.toCover
      /\ tx'.remaining = tx.remaining /\ tx.remaining \in Nat
  BY MoneyNat DEF SkipDust, Settling, Locked, TypeOK, Transaction
<1>2. SeenOrders' = SeenOrders
  BY <1>1 DEF SeenOrders
<1>3. /\ m \in DOMAIN orders /\ m \notin DOMAIN draft.orders
      /\ NextMaker.remainingAmount = orders[m].remainingAmount
  BY <1>1, <1>m, NextMakerRow
<1>4. SeenOrders[m] = orders[m]
  BY <1>3 DEF SeenOrders, Overlay
<1>5. MultiplyScaled(Lesser(tx.remaining, orders[m].remainingAmount),
                     orders[m].price) = 0
  BY <1>3, <1>m DEF SkipDust, ExecutedCost, TradeAmount, TradePrice
<1>6. Unpayable(m)'
  BY <1>1, <1>2, <1>4, <1>5 DEF Unpayable
<1>7. QED
  BY <1>1, <1>2, <1>6, <1>m, HeadOverlooks

LEMMA SettleMakerOverlooks ==
    ASSUME Locked, DraftedMakers, NoneOverlooked, SettleMaker
    PROVE  NoneOverlooked'
<1>m. PICK m : m = NextMaker.id
  OBVIOUS
<1>1. /\ Settling /\ orders' = orders
      /\ draft'.orders = Write(draft.orders, m, MakerAfterTrade)
      /\ tx'.phase = "settle" /\ tx'.taker = tx.taker
      /\ tx'.makers = Tail(tx.makers) /\ tx'.toCover = tx.toCover
      /\ tx'.remaining = tx.remaining - TradeAmount
  BY <1>m DEF SettleMaker, Settling, Locked, TypeOK, Transaction
<1>2. /\ m \in DOMAIN orders /\ orders[m] \in Order
      /\ tx.remaining \in Nat /\ NextMaker.remainingAmount \in Nat
      /\ TradeAmount \in Nat
      /\ tx.remaining - TradeAmount \in Nat
      /\ NextMaker.remainingAmount - TradeAmount \in Nat
      /\ orders[m].price \in Nat
  BY <1>1, <1>m, NextMakerRow, MoneyNat DEF Order
<1>3. /\ SeenOrders'[m] = MakerAfterTrade
      /\ \A o \in DOMAIN orders \ {m} : SeenOrders'[o] = SeenOrders[o]
  BY <1>1, <1>2 DEF SeenOrders, Overlay, Write
<1>4. MakerAfterTrade.remainingAmount = NextMaker.remainingAmount - TradeAmount
  BY <1>2, <1>m DEF MakerAfterTrade, AfterTrades, Order
<1>5. \/ tx.remaining - TradeAmount = 0
      \/ NextMaker.remainingAmount - TradeAmount = 0
  BY <1>2 DEF TradeAmount, Lesser
<1>6. Unpayable(m)'
  BY <1>1, <1>2, <1>3, <1>4, <1>5, NothingUnpayable DEF Unpayable
<1>7. tx'.remaining \in Nat /\ tx'.remaining <= tx.remaining
  BY <1>1, <1>2
<1>8. QED
  BY <1>1, <1>3, <1>6, <1>7, <1>m, HeadOverlooks

LEMMA LockTakerOverlooks ==
    ASSUME Locked, LockTaker
    PROVE  NoneOverlooked'
<1>1. tx'.phase = "select" /\ tx'.cursor = 0
  BY DEF LockTaker, Locked, TypeOK, Transaction, LockDiscipline, CursorHeld
<1>2. QED
  BY <1>1 DEF NoneOverlooked

\* What other transactions' commits do to the book while a match is running:
\* rows leave it, and those that stay keep their rows.
LEMMA OthersShrinkBook ==
    ASSUME Locked,
           \/ \E u \in Users, form \in OrderForms : CreateOrder(u, form)
           \/ \E c \in DOMAIN orders : CommitCancel(c)
           \/ RejectTaker
    PROVE  /\ \A o \in DOMAIN orders : orders'[o].price = orders[o].price
           /\ \A o \in DOMAIN orders' :
                 \/ orders'[o].status \notin BookStatuses
                 \/ o \in DOMAIN orders /\ orders'[o] = orders[o]
<1>1. ASSUME NEW u \in Users, NEW form \in OrderForms, CreateOrder(u, form)
      PROVE  /\ \A o \in DOMAIN orders : orders'[o].price = orders[o].price
             /\ \A o \in DOMAIN orders' :
                   \/ orders'[o].status \notin BookStatuses
                   \/ o \in DOMAIN orders /\ orders'[o] = orders[o]
  <2> DEFINE row == QueuedOrder(u, form)
  <2>1. row \in Order /\ row.status \notin BookStatuses
    BY RowsAssumption
       DEF QueuedOrder, Order, OrderStatus, ActiveStatuses, BookStatuses
  <2>2. orders' = Append(orders, row)
    BY <1>1 DEF CreateOrder
  <2> HIDE DEF row
  <2>3. QED
    BY <2>1, <2>2, AppendedOrder DEF Locked
<1>2. ASSUME NEW c \in DOMAIN orders, NEW status \in {"CANCELLED", "REJECTED"},
             orders' = [orders EXCEPT ![c].status = status]
      PROVE  /\ \A o \in DOMAIN orders : orders'[o].price = orders[o].price
             /\ \A o \in DOMAIN orders' :
                   \/ orders'[o].status \notin BookStatuses
                   \/ o \in DOMAIN orders /\ orders'[o] = orders[o]
  <2>1. /\ DOMAIN orders' = DOMAIN orders
        /\ orders[c] \in Order
        /\ orders'[c] = [orders[c] EXCEPT !.status = status]
        /\ \A x \in DOMAIN orders \ {c} : orders'[x] = orders[x]
    BY <1>2, UpdatedOrder, OrderRows DEF Locked, OrderStatus
  <2>2. orders'[c].price = orders[c].price /\ orders'[c].status = status
    BY <2>1 DEF Order
  <2>3. QED
    BY <2>1, <2>2 DEF BookStatuses
<1>3. ASSUME NEW c \in DOMAIN orders, CommitCancel(c)
      PROVE  /\ \A o \in DOMAIN orders : orders'[o].price = orders[o].price
             /\ \A o \in DOMAIN orders' :
                   \/ orders'[o].status \notin BookStatuses
                   \/ o \in DOMAIN orders /\ orders'[o] = orders[o]
  BY <1>3, <1>2 DEF CommitCancel
<1>4. ASSUME RejectTaker
      PROVE  /\ \A o \in DOMAIN orders : orders'[o].price = orders[o].price
             /\ \A o \in DOMAIN orders' :
                   \/ orders'[o].status \notin BookStatuses
                   \/ o \in DOMAIN orders /\ orders'[o] = orders[o]
  <2>1. tx.taker \in DOMAIN orders
    BY <1>4, TakerRow DEF RejectTaker
  <2>2. QED
    BY <2>1, <1>4, <1>2 DEF RejectTaker
<1>5. QED
  BY <1>1, <1>3, <1>4

LEMMA NextOverlooks ==
    ASSUME Locked, DraftedMakers, NoneOverlooked, [Next]_vars
    PROVE  NoneOverlooked'
<1>1. ASSUME NEW u \in Users, NEW form \in OrderForms, CreateOrder(u, form)
      PROVE  NoneOverlooked'
  <2>1. QueuedOrder(u, form) \in Order
    BY RowsAssumption DEF QueuedOrder, Order, OrderStatus, ActiveStatuses
  <2>2. /\ orders' = Append(orders, QueuedOrder(u, form))
        /\ tx' = tx /\ draft' = draft
    BY <1>1 DEF CreateOrder
  <2>3. \A o \in tx.locks : orders'[o] = orders[o]
    BY <2>1, <2>2, AppendedOrder DEF Locked, LockDiscipline, CursorHeld
  <2>4. QED
    BY <1>1, <2>2, <2>3, OthersShrinkBook, OverlookedKept
<1>2. ASSUME NEW o \in DOMAIN orders, CommitCancel(o)
      PROVE  NoneOverlooked'
  <2>1. /\ o \notin tx.locks /\ tx' = tx /\ draft' = draft
        /\ orders' = [orders EXCEPT ![o].status = "CANCELLED"]
    BY <1>2 DEF CommitCancel, Locked, LockDiscipline, CancelsHeld
  <2>2. \A x \in tx.locks : orders'[x] = orders[x]
    BY <2>1, UpdatedOrder DEF Locked, LockDiscipline, CursorHeld, OrderStatus
  <2>3. QED
    BY <1>2, <2>1, <2>2, OthersShrinkBook, OverlookedKept
<1>3. ASSUME NEW o \in DOMAIN orders,
             LockForCancel(o) \/ RefuseCancel(o) \/ AbortCancel(o)
      PROVE  NoneOverlooked'
  <2>1. tx' = tx /\ draft' = draft /\ orders' = orders
    BY <1>3 DEF LockForCancel, RefuseCancel, AbortCancel
  <2>2. QED
    BY <2>1, OverlookedKept
<1>4. ASSUME NEW o \in DOMAIN orders,
             LockMarket(o, "process") \/ LockMarket(o, "reject")
      PROVE  NoneOverlooked'
  BY <1>4 DEF LockMarket, Idle, NoneOverlooked
<1>5. CASE \/ SkipProcessed \/ RejectTaker \/ CommitMatch
           \/ RefuseSettlement \/ RefuseRejection \/ Rollback
  <2>1. tx'.phase = "idle"
    BY <1>5 DEF SkipProcessed, RejectTaker, CommitMatch, RefuseSettlement,
                RefuseRejection, Rollback, Undo, Idle
  <2>2. QED
    BY <2>1 DEF NoneOverlooked
<1>6. CASE LockTaker
  BY <1>6, LockTakerOverlooks
<1>7. CASE FindCandidate
  BY <1>7, FindCandidateOverlooks
<1>8. CASE LockCandidate
  BY <1>8, LockCandidateOverlooks
<1>9. CASE EndSelection
  BY <1>9, EndSelectionOverlooks
<1>10. CASE SkipDust
  BY <1>10, SkipDustOverlooks
<1>11. CASE SettleMaker
  BY <1>11, SettleMakerOverlooks
<1>12. CASE UNCHANGED vars
  BY <1>12, OverlookedKept DEF vars
<1>13. QED
  BY <1>1, <1>2, <1>3, <1>4, <1>5, <1>6, <1>7, <1>8, <1>9, <1>10, <1>11,
     <1>12 DEF Next

-----------------------------------------------------------------------------
(* The book never rests crossed *)

Uncrossing ==
    /\ Locked /\ DraftedMakers /\ CoverAgrees /\ NoneOverlooked
    /\ NoExecutableCross

\* What NoExecutableCross says of one pair of rows.
NoCross(bid, ask) ==
    /\ bid.side = "BUY" /\ bid.status \in BookStatuses
    /\ ask.side = "SELL" /\ ask.status \in BookStatuses
    /\ bid.userId # ask.userId
    /\ bid.price >= ask.price
    => MultiplyScaled(Lesser(bid.remainingAmount, ask.remainingAmount),
                      ask.price) = 0

LEMMA CrossByPairs ==
    NoExecutableCross <=> \A b, s \in DOMAIN orders : NoCross(orders[b], orders[s])
BY DEF NoExecutableCross, NoCross

\* When a match commits, nothing of an order on the book is left that it could
\* still trade with.
LEMMA MatchExhausts ==
    ASSUME Uncrossing, CommitMatch, NEW m \in DOMAIN orders,
           Opposes(Taker, orders[m]), orders[m].status \in BookStatuses
    PROVE  Unpayable(m)
<1>1. /\ tx.phase = "settle" /\ (tx.makers = <<>> \/ tx.remaining = 0)
      /\ tx.remaining \in Nat
  BY MoneyNat DEF CommitMatch, Uncrossing, Locked, TypeOK, Transaction
<1>2. /\ SeenOrders[m].remainingAmount \in Nat /\ orders[m].price \in Nat
  BY SeenRemaining DEF Uncrossing
<1>3. CASE tx.remaining = 0
  BY <1>1, <1>2, <1>3, NothingUnpayable DEF Unpayable
<1>4. CASE tx.makers = <<>>
  <2>1. PICK left : IsPlan(left)
    BY <1>1 DEF Uncrossing, CoverAgrees
  <2>2. tx.remaining = tx.toCover
    BY <1>4, <2>1 DEF IsPlan
  <2>3. ~Listed(m)
    BY <1>4 DEF Listed
  <2>4. Unpayable(m) \/ tx.toCover = 0
    BY <1>1, <2>3 DEF Uncrossing, NoneOverlooked
  <2>5. QED
    BY <2>2, <2>4, <1>3
<1>5. QED
  BY <1>1, <1>3, <1>4

\* A row that a match leaves on the book was on it, unless it is the taker's.
LEMMA MatchedRow ==
    ASSUME Uncrossing, CommitMatch, NEW m \in DOMAIN orders, m # tx.taker
    PROVE  /\ orders'[m].userId = orders[m].userId
           /\ orders'[m].side = orders[m].side
           /\ orders'[m].price = orders[m].price
           /\ orders'[m].remainingAmount = SeenOrders[m].remainingAmount
           /\ orders'[m].status \in BookStatuses
                 => orders[m].status \in BookStatuses
<1>1. orders[m] \in Order /\ orders'[m] = SeenOrders[m]
  BY MatchedOrders, OrderRows DEF Uncrossing, Locked
<1>2. CASE m \in DOMAIN draft.orders
  <2>1. /\ SeenOrders[m] = draft.orders[m]
        /\ draft.orders[m] = AfterTrades(orders[m],
                                draft.orders[m].remainingAmount, TRUE)
        /\ orders[m].status \in BookStatuses
    BY <1>2 DEF SeenOrders, Overlay, Uncrossing, Locked, LockDiscipline,
                DraftHeld, DraftedMakers, IsEligibleMaker
  <2>2. PICK left : draft.orders[m] = AfterTrades(orders[m], left, TRUE)
    BY <2>1
  <2>3. /\ draft.orders[m].userId = orders[m].userId
        /\ draft.orders[m].side = orders[m].side
        /\ draft.orders[m].price = orders[m].price
    BY <1>1, <2>2 DEF AfterTrades, Order
  <2>4. QED
    BY <1>1, <2>1, <2>3
<1>3. CASE m \notin DOMAIN draft.orders
  BY <1>1, <1>3 DEF SeenOrders, Overlay
<1>4. QED
  BY <1>2, <1>3

LEMMA CommitMatchUncrosses ==
    ASSUME Uncrossing, CommitMatch
    PROVE  NoExecutableCross'
<1> DEFINE t == tx.taker
<1>1. /\ tx.phase = "settle" /\ t \in DOMAIN orders /\ Taker = orders[t]
      /\ orders[t] \in Order
      /\ tx.remaining \in Nat
      /\ DOMAIN orders' = DOMAIN orders
      /\ orders'[t] = AfterTrades(Taker, tx.remaining, draft.trades # <<>>)
  BY TakerRow, MatchedOrders, MoneyNat
     DEF CommitMatch, Uncrossing, Locked, TypeOK, Transaction
<1>2. /\ orders'[t].userId = orders[t].userId
      /\ orders'[t].side = orders[t].side
      /\ orders'[t].price = orders[t].price
      /\ orders'[t].remainingAmount = tx.remaining
      /\ orders[t].side \in {"BUY", "SELL"}
      /\ orders[t].price \in Nat
  BY <1>1, MoneyNat DEF AfterTrades, Order, Side
<1> HIDE DEF t
<1>3. ASSUME NEW m \in DOMAIN orders
      PROVE  /\ orders[m].side \in {"BUY", "SELL"} /\ orders[m].price \in Nat
             /\ orders[m].remainingAmount \in Nat
             /\ SeenOrders[m].remainingAmount \in Nat
             /\ SeenOrders[m].remainingAmount <= orders[m].remainingAmount
  <2>1. orders[m] \in Order
    BY OrderRows DEF Uncrossing, Locked
  <2>2. QED
    BY <2>1, SeenRemaining DEF Order, Side, Uncrossing
<1>4. ASSUME NEW b \in DOMAIN orders, NEW s \in DOMAIN orders
      PROVE  NoCross(orders'[b], orders'[s])
  <2> SUFFICES ASSUME orders'[b].side = "BUY",
                      orders'[b].status \in BookStatuses,
                      orders'[s].side = "SELL",
                      orders'[s].status \in BookStatuses,
                      orders'[b].userId # orders'[s].userId,
                      orders'[b].price >= orders'[s].price
               PROVE  MultiplyScaled(Lesser(orders'[b].remainingAmount,
                                            orders'[s].remainingAmount),
                                     orders'[s].price) = 0
    BY DEF NoCross
  <2>1. CASE b # t /\ s # t
    <3>1. /\ MultiplyScaled(Lesser(orders[b].remainingAmount,
                                   orders[s].remainingAmount),
                            orders[s].price) = 0
          /\ orders'[s].price = orders[s].price
          /\ orders'[b].remainingAmount = SeenOrders[b].remainingAmount
          /\ orders'[s].remainingAmount = SeenOrders[s].remainingAmount
      BY <2>1, MatchedRow DEF Uncrossing, NoExecutableCross, t
    <3>2. orders[s].price <= orders[s].price
      BY <1>3
    <3>3. MultiplyScaled(Lesser(SeenOrders[b].remainingAmount,
                                SeenOrders[s].remainingAmount),
                         orders[s].price) = 0
      BY <3>1, <3>2, <1>3, StillUnpayable
    <3>4. QED
      BY <3>1, <3>3
  <2>2. CASE b = t /\ s # t
    <3>1. /\ Opposes(Taker, orders[s]) /\ orders[s].status \in BookStatuses
          /\ orders'[s].price = orders[s].price
          /\ orders'[s].remainingAmount = SeenOrders[s].remainingAmount
      BY <2>2, <1>1, <1>2, <1>3, MatchedRow DEF Opposes, t
    <3>2. Unpayable(s)
      BY <3>1, MatchExhausts
    <3>3. QED
      BY <3>1, <3>2, <2>2, <1>2 DEF Unpayable
  <2>3. CASE b # t /\ s = t
    <3>1. /\ Opposes(Taker, orders[b]) /\ orders[b].status \in BookStatuses
          /\ orders'[b].price = orders[b].price
          /\ orders'[b].remainingAmount = SeenOrders[b].remainingAmount
      BY <2>3, <1>1, <1>2, <1>3, MatchedRow DEF Opposes, t
    <3>2. Unpayable(b)
      BY <3>1, MatchExhausts
    <3>3. MultiplyScaled(Lesser(tx.remaining, SeenOrders[b].remainingAmount),
                         orders[t].price) = 0
      <4>1. orders[t].price <= orders[b].price
        BY <2>3, <3>1, <1>2, <1>3
      <4>2. /\ tx.remaining <= tx.remaining
            /\ SeenOrders[b].remainingAmount <= SeenOrders[b].remainingAmount
        BY <1>1, <1>3
      <4>3. QED
        BY <3>2, <4>1, <4>2, <1>1, <1>2, <1>3, StillUnpayable DEF Unpayable
    <3>4. Lesser(tx.remaining, SeenOrders[b].remainingAmount)
             = Lesser(SeenOrders[b].remainingAmount, tx.remaining)
      BY <1>1, <1>3 DEF Lesser
    <3>5. QED
      BY <3>1, <3>3, <3>4, <2>3, <1>2
  <2>4. b # s
    BY DEF Side
  <2>5. QED
    BY <2>1, <2>2, <2>3, <2>4
<1>5. QED
  BY <1>1, <1>4 DEF NoExecutableCross, NoCross

LEMMA NextUncrosses ==
    ASSUME Uncrossing, [Next]_vars
    PROVE  NoExecutableCross'
<1>1. CASE \/ \E u \in Users, form \in OrderForms : CreateOrder(u, form)
           \/ \E c \in DOMAIN orders : CommitCancel(c)
           \/ RejectTaker
  <2>1. \A o \in DOMAIN orders' :
           \/ orders'[o].status \notin BookStatuses
           \/ o \in DOMAIN orders /\ orders'[o] = orders[o]
    BY <1>1, OthersShrinkBook DEF Uncrossing
  <2>2. QED
    BY <2>1 DEF NoExecutableCross, Uncrossing
<1>2. CASE SettleMaker \/ QuietStep
  <2>1. orders' = orders
    BY <1>2 DEF SettleMaker, QuietStep
  <2>2. QED
    BY <2>1 DEF NoExecutableCross, Uncrossing
<1>3. CASE CommitMatch
  BY <1>3, CommitMatchUncrosses
<1>4. QED
  BY <1>1, <1>2, <1>3, StepKinds DEF Uncrossing

\* Two resting orders of different users never cross by as much as can be
\* traded for one unit of USD: what findAndLockEligibleMakers stops looking for
\* is what settlement fills, and a maker that it skips as dust stays dust.
THEOREM BookNeverCrossed == Spec => []NoExecutableCross
<1>1. Init => Uncrossing
  <2>1. Init => Locked
    BY InitLocked
  <2>2. Init => DraftedMakers
    BY NoDraftedOrders DEF Init, DraftedMakers
  <2>3. Init => CoverAgrees /\ NoneOverlooked
    BY DEF Init, Idle, CoverAgrees, NoneOverlooked
  <2>4. Init => NoExecutableCross
    BY DEF Init, NoExecutableCross
  <2>5. QED
    BY <2>1, <2>2, <2>3, <2>4 DEF Uncrossing
<1>2. Uncrossing /\ [Next]_vars => Uncrossing'
  BY NextLocked, NextDrafted, NextCovers, NextOverlooks, NextUncrosses
     DEF Uncrossing
<1>3. Uncrossing => NoExecutableCross
  BY DEF Uncrossing
<1>4. QED
  BY <1>1, <1>2, <1>3, PTL DEF Spec

-----------------------------------------------------------------------------
(* Sums of escrows *)

\* No order keeps more than this reserved.
EscrowBound == MultiplyScaled(DecimalMax, DecimalMax) + DecimalMax

\* The rows of a table are numbered from one and fit their columns.
IsTable(table) ==
    /\ \E n \in Nat : DOMAIN table = 1..n
    /\ \A o \in DOMAIN table : table[o] \in Order

LEMMA EscrowBoundNat == EscrowBound \in Nat
<1>1. DecimalMax \in Nat
  BY DecimalsAssumption
<1>2. MultiplyScaled(DecimalMax, DecimalMax) \in Nat
  BY <1>1, MultiplyScaledNat
<1>3. QED
  BY <1>1, <1>2, SMT DEF EscrowBound

LEMMA EscrowType ==
    ASSUME NEW side \in Side, NEW amount \in Money, NEW price \in Money
    PROVE  Escrow(side, amount, price) \in 0..EscrowBound
<1>1. /\ amount \in Nat /\ price \in Nat /\ DecimalMax \in Nat
      /\ amount <= DecimalMax /\ price <= DecimalMax
  BY DecimalsAssumption DEF Money
<1>2. /\ MultiplyScaled(amount, price) \in Nat
      /\ MultiplyScaled(DecimalMax, DecimalMax) \in Nat
      /\ MultiplyScaled(amount, DecimalMax) \in Nat
  BY <1>1, MultiplyScaledNat
<1>3. MultiplyScaled(amount, price) <= MultiplyScaled(amount, DecimalMax)
  BY <1>1, CostMonotoneInPrice
<1>4. MultiplyScaled(amount, DecimalMax) <= MultiplyScaled(DecimalMax, DecimalMax)
  BY <1>1, CostMonotoneInAmount
<1>5. QED
  BY <1>1, <1>2, <1>3, <1>4, SMT DEF Escrow, EscrowBound

LEMMA EscrowForType ==
    ASSUME NEW order \in Order, NEW u, NEW side \in Side
    PROVE  EscrowFor(order, u, side) \in 0..EscrowBound
<1>1. Escrow(side, order.remainingAmount, order.price) \in 0..EscrowBound
  BY EscrowType DEF Order
<1>2. EscrowBound \in Nat
  BY EscrowBoundNat
<1>3. QED
  BY <1>1, <1>2, SMT DEF EscrowFor

LEMMA TableFinite ==
    ASSUME NEW table, IsTable(table)
    PROVE  IsFiniteSet(DOMAIN table)
<1>1. PICK n \in Nat : DOMAIN table = 1..n
  BY DEF IsTable
<1>2. IsFiniteSet(1..n)
  BY FS_Interval, SMT
<1>3. QED
  BY <1>1, <1>2

\* What one order keeps is at most what all keep; and what all keep changes by
\* what it changes.
LEMMA ReservedUpdate ==
    ASSUME NEW table, NEW table2, IsTable(table), IsTable(table2),
           DOMAIN table2 = DOMAIN table, NEW o \in DOMAIN table,
           \A x \in DOMAIN table \ {o} : table2[x] = table[x],
           NEW u, NEW side \in Side
    PROVE  /\ Reserved(table, u, side) \in Nat
           /\ EscrowFor(table[o], u, side) <= Reserved(table, u, side)
           /\ Reserved(table2, u, side)
                 = Reserved(table, u, side) - EscrowFor(table[o], u, side)
                                            + EscrowFor(table2[o], u, side)
<1> DEFINE S == DOMAIN table
           f == [x \in S |-> EscrowFor(table[x], u, side)]
           g == [x \in S |-> EscrowFor(table2[x], u, side)]
<1>1. \A x \in S : f[x] \in 0..EscrowBound /\ g[x] \in 0..EscrowBound
  BY EscrowForType DEF IsTable
<1>2. \A x \in S \ {o} : f[x] = g[x]
  OBVIOUS
<1>3. IsFiniteSet(S) /\ EscrowBound \in Nat
  BY TableFinite, EscrowBoundNat
<1>4. Reserved(table, u, side) = SumOver(f, S) /\ Reserved(table2, u, side) = SumOver(g, S)
  BY DEF Reserved
<1>5. f[o] = EscrowFor(table[o], u, side) /\ g[o] = EscrowFor(table2[o], u, side)
  OBVIOUS
<1> HIDE DEF S, f, g
<1>6. o \in S
  BY DEF S
<1>7. /\ SumOver(f, S) \in Nat
      /\ f[o] <= SumOver(f, S)
      /\ SumOver(g, S) = SumOver(f, S) - f[o] + g[o]
  BY <1>1, <1>2, <1>3, <1>6, SumUpdate
<1>8. QED
  BY <1>4, <1>5, <1>7

\* A new order adds what it keeps.
LEMMA ReservedAppend ==
    ASSUME NEW table, NEW table2, IsTable(table), IsTable(table2),
           NEW o, o \notin DOMAIN table,
           DOMAIN table2 = DOMAIN table \cup {o},
           \A x \in DOMAIN table : table2[x] = table[x],
           NEW u, NEW side \in Side
    PROVE  Reserved(table2, u, side)
              = Reserved(table, u, side) + EscrowFor(table2[o], u, side)
<1> DEFINE S == DOMAIN table
           f == [x \in S |-> EscrowFor(table[x], u, side)]
           g == [x \in S \cup {o} |-> EscrowFor(table2[x], u, side)]
<1>1. /\ \A x \in S : f[x] \in 0..EscrowBound /\ g[x] \in 0..EscrowBound
      /\ g[o] \in 0..EscrowBound
  BY EscrowForType DEF IsTable
<1>2. \A x \in S : f[x] = g[x]
  OBVIOUS
<1>3. IsFiniteSet(S) /\ EscrowBound \in Nat
  BY TableFinite, EscrowBoundNat
<1>4. /\ Reserved(table, u, side) = SumOver(f, S)
      /\ Reserved(table2, u, side) = SumOver(g, S \cup {o})
  BY DEF Reserved
<1>5. g[o] = EscrowFor(table2[o], u, side) /\ o \notin S
  OBVIOUS
<1> HIDE DEF S, f, g
<1>6. SumOver(g, S \cup {o}) = SumOver(g, S) + g[o]
  BY <1>1, <1>3, <1>5, SumAdd
<1>7. SumOver(g, S) = SumOver(f, S)
  BY <1>2, SumCongruent
<1>8. QED
  BY <1>4, <1>5, <1>6, <1>7

-----------------------------------------------------------------------------
(* Backed tables *)

\* The same escrows need the same reservations.
LEMMA BackedSame ==
    ASSUME NEW table, NEW table2, NEW funds, NEW funds2, Backed(table, funds),
           DOMAIN table2 = DOMAIN table,
           \A o \in DOMAIN table, u \in Users, side \in Side :
              EscrowFor(table2[o], u, side) = EscrowFor(table[o], u, side),
           \A u \in Users : /\ funds2[u].reservedUsd = funds[u].reservedUsd
                            /\ funds2[u].reservedBtc = funds[u].reservedBtc
    PROVE  Backed(table2, funds2)
<1>1. ASSUME NEW u \in Users, NEW side \in Side
      PROVE  Reserved(table2, u, side) = Reserved(table, u, side)
  <2> DEFINE f == [o \in DOMAIN table |-> EscrowFor(table[o], u, side)]
             g == [o \in DOMAIN table |-> EscrowFor(table2[o], u, side)]
  <2>1. f = g
    OBVIOUS
  <2>2. QED
    BY <2>1 DEF Reserved
<1>2. QED
  BY <1>1 DEF Backed, Side

\* Two tables that differ in the row of o only.
OneRowChanged(table, table2, o) ==
    /\ DOMAIN table2 = DOMAIN table
    /\ o \in DOMAIN table
    /\ \A x \in DOMAIN table \ {o} : table2[x] = table[x]

\* Each user's reservations change by the escrow of one order.
ReservationMoved(funds, funds2, before, after) ==
    \A u \in Users :
       /\ funds2[u].reservedUsd = funds[u].reservedUsd
             - EscrowFor(before, u, "BUY") + EscrowFor(after, u, "BUY")
       /\ funds2[u].reservedBtc = funds[u].reservedBtc
             - EscrowFor(before, u, "SELL") + EscrowFor(after, u, "SELL")

\* A step that changes one order, and the reservations with it.
LEMMA BackedUpdate ==
    ASSUME NEW table, NEW table2, IsTable(table), IsTable(table2),
           NEW o, OneRowChanged(table, table2, o),
           NEW funds, NEW funds2, Backed(table, funds),
           ReservationMoved(funds, funds2, table[o], table2[o])
    PROVE  Backed(table2, funds2)
<1>1. ASSUME NEW u \in Users, NEW side \in Side
      PROVE  Reserved(table2, u, side)
                = Reserved(table, u, side) - EscrowFor(table[o], u, side)
                                           + EscrowFor(table2[o], u, side)
  BY ReservedUpdate DEF OneRowChanged
<1>2. "BUY" \in Side /\ "SELL" \in Side
  BY DEF Side
<1>3. QED
  BY <1>1, <1>2 DEF Backed, ReservationMoved

\* A step that inserts an order and reserves its escrow.
LEMMA BackedAppend ==
    ASSUME NEW table, NEW table2, IsTable(table), IsTable(table2),
           NEW o, o \notin DOMAIN table,
           DOMAIN table2 = DOMAIN table \cup {o},
           \A x \in DOMAIN table : table2[x] = table[x],
           NEW funds, NEW funds2, Backed(table, funds),
           \A u \in Users :
              /\ funds2[u].reservedUsd
                    = funds[u].reservedUsd + EscrowFor(table2[o], u, "BUY")
              /\ funds2[u].reservedBtc
                    = funds[u].reservedBtc + EscrowFor(table2[o], u, "SELL")
    PROVE  Backed(table2, funds2)
<1>1. ASSUME NEW u \in Users, NEW side \in Side
      PROVE  Reserved(table2, u, side)
                = Reserved(table, u, side) + EscrowFor(table2[o], u, side)
  BY ReservedAppend
<1>2. "BUY" \in Side /\ "SELL" \in Side
  BY DEF Side
<1>3. QED
  BY <1>1, <1>2 DEF Backed

\* A wallet covers what each order of its user keeps reserved.
LEMMA BackedCovers ==
    ASSUME NEW table, IsTable(table), NEW o \in DOMAIN table,
           NEW funds, Backed(table, funds), NEW u \in Users
    PROVE  /\ EscrowFor(table[o], u, "BUY") <= funds[u].reservedUsd
           /\ EscrowFor(table[o], u, "SELL") <= funds[u].reservedBtc
<1>1. "BUY" \in Side /\ "SELL" \in Side
  BY DEF Side
<1>2. /\ EscrowFor(table[o], u, "BUY") <= Reserved(table, u, "BUY")
      /\ EscrowFor(table[o], u, "SELL") <= Reserved(table, u, "SELL")
  BY <1>1, ReservedUpdate
<1>3. QED
  BY <1>2 DEF Backed

-----------------------------------------------------------------------------
(* The tables of a state *)

LEMMA OrdersTable == TypeOK => IsTable(orders)
BY DEF TypeOK, IsTable

PendingRows ==
    /\ DOMAIN PendingOrders = DOMAIN orders
    /\ \A o \in DOMAIN orders \ {tx.taker} : PendingOrders[o] = SeenOrders[o]
    /\ tx.taker \in DOMAIN orders =>
          PendingOrders[tx.taker]
             = [orders[tx.taker] EXCEPT !.remainingAmount = tx.remaining]
    /\ IsTable(PendingOrders)

LEMMA PendingTable == TypeOK => PendingRows
<1> SUFFICES ASSUME TypeOK PROVE PendingRows
  OBVIOUS
<1>1. IsTable(orders)
  BY OrdersTable
<1>2. tx.remaining \in Money
  BY DEF TypeOK, Transaction
<1>3. \A o \in DOMAIN orders :
         [orders[o] EXCEPT !.remainingAmount = tx.remaining] \in Order
  BY <1>1, <1>2 DEF IsTable, Order
<1>4. \A o \in DOMAIN orders : SeenOrders[o] \in Order
  BY <1>1 DEF IsTable, SeenOrders, Overlay, TypeOK
<1>5. /\ DOMAIN PendingOrders = DOMAIN orders
      /\ \A o \in DOMAIN orders : PendingOrders[o] \in Order
      /\ \A o \in DOMAIN orders \ {tx.taker} : PendingOrders[o] = SeenOrders[o]
      /\ tx.taker \in DOMAIN orders =>
            PendingOrders[tx.taker]
               = [orders[tx.taker] EXCEPT !.remainingAmount = tx.remaining]
  BY <1>3, <1>4 DEF PendingOrders
<1>6. QED
  BY <1>1, <1>5 DEF IsTable, PendingRows

-----------------------------------------------------------------------------
(* Steps *)

\* ReservationsExact is inductive only together with what it becomes once the
\* drafted rows are committed.
Reserving == Locked /\ ReservationsExact /\ DraftBacked

\* A step that writes no table, and no draft unless it ends the settlement.
LEMMA NoBalanceWrite ==
    ASSUME Reserving, UNCHANGED <<orders, wallets>>,
           \/ tx'.phase # "settle"
           \/ /\ UNCHANGED draft
              /\ tx'.phase = tx.phase
              /\ tx'.taker = tx.taker
              /\ tx'.remaining = tx.remaining
    PROVE  ReservationsExact' /\ DraftBacked'
<1>1. ReservationsExact'
  BY DEF Reserving, ReservationsExact, Backed
<1>2. CASE tx'.phase # "settle"
  BY <1>1, <1>2 DEF DraftBacked
<1>3. CASE /\ UNCHANGED draft
           /\ tx'.phase = tx.phase
           /\ tx'.taker = tx.taker
           /\ tx'.remaining = tx.remaining
  <2>1. SeenWallets' = SeenWallets /\ SeenOrders' = SeenOrders
    BY <1>3 DEF SeenWallets, SeenOrders
  <2>2. PendingOrders' = PendingOrders
    BY <2>1, <1>3 DEF PendingOrders
  <2>3. Backed(PendingOrders, SeenWallets)' = Backed(PendingOrders, SeenWallets)
    BY <2>1, <2>2 DEF Backed
  <2>4. QED
    BY <2>3, <1>1, <1>3 DEF DraftBacked, Reserving
<1>4. QED
  BY <1>2, <1>3

\* When settlement starts, nothing is drafted.
LEMMA EndSelectionReserving ==
    ASSUME Reserving, EndSelection
    PROVE  ReservationsExact' /\ DraftBacked'
<1>1. /\ UNCHANGED <<orders, wallets, draft>>
      /\ tx'.phase = "settle" /\ tx'.taker = tx.taker
      /\ tx'.remaining = tx.remaining
      /\ tx.phase = "select"
  BY DEF EndSelection, Reserving, Locked, TypeOK, Transaction
<1>2. /\ tx.taker \in DOMAIN orders
      /\ tx.remaining = orders[tx.taker].remainingAmount
      /\ draft = NoWrites
  BY <1>1 DEF Reserving, Locked, LockDiscipline, TakerHeld, DraftHeld, Taker
<1>3. DOMAIN draft.wallets = {} /\ DOMAIN draft.orders = {}
  <2>1. NoWrites.wallets = << >> /\ NoWrites.orders = << >>
    BY DEF NoWrites
  <2>2. QED
    BY <2>1, <1>2
<1>4. TypeOK'
  BY EndSelectionLocked DEF Reserving, Locked
<1>5. PendingRows'
  BY <1>4, PendingTable, PTL
<1>6. /\ DOMAIN PendingOrders' = DOMAIN orders
      /\ \A o \in DOMAIN orders :
            /\ PendingOrders'[o].userId = orders[o].userId
            /\ PendingOrders'[o].side = orders[o].side
            /\ PendingOrders'[o].price = orders[o].price
            /\ PendingOrders'[o].status = orders[o].status
            /\ PendingOrders'[o].remainingAmount = orders[o].remainingAmount
  <2>1. \A o \in DOMAIN orders : SeenOrders'[o] = orders[o]
    BY <1>1, <1>3 DEF SeenOrders, Overlay
  <2>2. \A o \in DOMAIN orders : orders[o] \in Order
    BY OrderRows DEF Reserving, Locked
  <2>3. QED
    BY <1>1, <1>2, <1>5, <2>1, <2>2 DEF PendingRows, Order
<1>7. \A u \in Users : SeenWallets'[u] = wallets[u]
  BY <1>1, <1>3 DEF SeenWallets, Overlay, Reserving, Locked, TypeOK
<1>8. \A o \in DOMAIN orders, u \in Users, side \in Side :
         EscrowFor(PendingOrders'[o], u, side) = EscrowFor(orders[o], u, side)
  BY <1>6 DEF EscrowFor
<1>9. Backed(orders, wallets)
  BY DEF Reserving, ReservationsExact
<1>10. Backed(PendingOrders', SeenWallets')
  BY <1>6, <1>7, <1>8, <1>9, BackedSame
<1>11. QED
  BY <1>1, <1>9, <1>10 DEF ReservationsExact, DraftBacked, Backed

LEMMA SeenBalances ==
    ASSUME Locked, NEW u \in Users
    PROVE  /\ SeenWallets[u].reservedUsd \in Int
           /\ SeenWallets[u].reservedBtc \in Int
<1> DEFINE wallet == SeenWallets[u]
<1>1. wallet \in Wallet
  BY SeenWalletRow
<1> HIDE DEF wallet
<1>2. wallet.reservedUsd \in Money /\ wallet.reservedBtc \in Money
  BY <1>1 DEF Wallet
<1>3. wallet.reservedUsd \in Int /\ wallet.reservedBtc \in Int
  BY <1>2, DecimalsAssumption, SMT DEF Money
<1>4. QED
  BY <1>3 DEF wallet

LEMMA CreateOrderReserving ==
    ASSUME Reserving, NEW u \in Users, NEW form \in OrderForms,
           CreateOrder(u, form)
    PROVE  ReservationsExact' /\ DraftBacked'
<1> DEFINE row == QueuedOrder(u, form)
           id == Len(orders) + 1
           value == Escrow(form.side, form.amount, form.price)
<1>1. row \in Order
  BY RowsAssumption DEF QueuedOrder, Order, OrderStatus, ActiveStatuses
<1>2. /\ orders' = Append(orders, row)
      /\ UNCHANGED <<trades, cancels, tx, draft>>
      /\ u \notin DOMAIN draft.wallets
      /\ wallets' = [wallets EXCEPT ![u] = ReserveFunds(wallets[u], form.side, value)]
  BY DEF CreateOrder
<1>3. /\ id \notin DOMAIN orders
      /\ DOMAIN orders' = DOMAIN orders \cup {id}
      /\ orders'[id] = row
      /\ \A o \in DOMAIN orders : orders'[o] = orders[o]
  BY <1>1, <1>2, AppendedOrder DEF Reserving, Locked
<1>4. IsTable(orders) /\ PendingRows
  BY OrdersTable, PendingTable DEF Reserving, Locked
<1>5. TypeOK'
  BY CreateOrderLocked DEF Reserving, Locked
<1>6. IsTable(orders)' /\ PendingRows'
  BY <1>5, OrdersTable, PendingTable, PTL
<1>7. \A v \in Users :
         /\ EscrowFor(row, v, "BUY")
               = IF v = u /\ form.side = "BUY" THEN value ELSE 0
         /\ EscrowFor(row, v, "SELL")
               = IF v = u /\ form.side = "SELL" THEN value ELSE 0
  BY DEF EscrowFor, QueuedOrder, ActiveStatuses
<1>8. \A v \in Users :
         /\ wallets'[v].reservedUsd
               = wallets[v].reservedUsd + EscrowFor(row, v, "BUY")
         /\ wallets'[v].reservedBtc
               = wallets[v].reservedBtc + EscrowFor(row, v, "SELL")
  <2>1. form.side \in {"BUY", "SELL"}
    BY RowsAssumption DEF Side
  <2>2. /\ wallets \in [Users -> Wallet]
        /\ \A v \in Users : /\ wallets[v].reservedUsd \in Int
                            /\ wallets[v].reservedBtc \in Int
    BY MoneyNat DEF Reserving, Locked, TypeOK, Wallet
  <2>3. ASSUME NEW v \in Users
        PROVE  /\ wallets'[v].reservedUsd
                     = wallets[v].reservedUsd + EscrowFor(row, v, "BUY")
               /\ wallets'[v].reservedBtc
                     = wallets[v].reservedBtc + EscrowFor(row, v, "SELL")
    <3>1. CASE v = u
      BY <3>1, <1>2, <1>7, <2>1, <2>2 DEF ReserveFunds, Wallet
    <3>2. CASE v # u
      BY <3>2, <1>2, <1>7, <2>2
    <3>3. QED
      BY <3>1, <3>2
  <2>4. QED
    BY <2>3
<1>9. ReservationsExact'
  <2>1. Backed(orders, wallets)
    BY DEF Reserving, ReservationsExact
  <2>2. Backed(orders', wallets')
    BY <1>3, <1>4, <1>6, <1>8, <2>1, BackedAppend
  <2>3. QED
    BY <2>2 DEF ReservationsExact, Backed
<1>10. ASSUME tx.phase = "settle"
       PROVE  Backed(PendingOrders', SeenWallets')
  <2>1. Backed(PendingOrders, SeenWallets)
    BY <1>10 DEF Reserving, DraftBacked
  <2>2. tx.taker \in DOMAIN orders /\ DOMAIN draft.orders \subseteq DOMAIN orders
    BY <1>10 DEF Reserving, Locked, TypeOK, LockDiscipline, TakerHeld
  <2>3. /\ \A o \in DOMAIN orders : SeenOrders'[o] = SeenOrders[o]
        /\ SeenOrders'[id] = row
    BY <1>2, <1>3, <2>2 DEF SeenOrders, Overlay
  <2>4. /\ DOMAIN PendingOrders' = DOMAIN PendingOrders \cup {id}
        /\ id \notin DOMAIN PendingOrders
        /\ PendingOrders'[id] = row
        /\ \A o \in DOMAIN PendingOrders : PendingOrders'[o] = PendingOrders[o]
    BY <1>2, <1>3, <1>4, <1>6, <2>2, <2>3 DEF PendingRows
  <2>5. \A v \in Users :
           /\ SeenWallets'[v].reservedUsd
                 = SeenWallets[v].reservedUsd + EscrowFor(row, v, "BUY")
           /\ SeenWallets'[v].reservedBtc
                 = SeenWallets[v].reservedBtc + EscrowFor(row, v, "SELL")
    <3>1. /\ DOMAIN wallets = Users /\ DOMAIN wallets' = Users
          /\ \A v \in Users \ {u} : wallets'[v] = wallets[v]
      BY <1>2 DEF Reserving, Locked, TypeOK
    <3>2. /\ SeenWallets[u] = wallets[u] /\ SeenWallets'[u] = wallets'[u]
          /\ \A v \in Users \ {u} : SeenWallets'[v] = SeenWallets[v]
      BY <1>2, <3>1 DEF SeenWallets, Overlay
    <3>3. \A v \in Users : /\ SeenWallets[v].reservedUsd \in Int
                           /\ SeenWallets[v].reservedBtc \in Int
      BY SeenBalances DEF Reserving
    <3>4. QED
      BY <1>7, <1>8, <3>2, <3>3
  <2>6. IsTable(PendingOrders) /\ IsTable(PendingOrders')
    BY <1>4, <1>6 DEF PendingRows
  <2>7. \A v \in Users :
           /\ SeenWallets'[v].reservedUsd
                 = SeenWallets[v].reservedUsd + EscrowFor(PendingOrders'[id], v, "BUY")
           /\ SeenWallets'[v].reservedBtc
                 = SeenWallets[v].reservedBtc + EscrowFor(PendingOrders'[id], v, "SELL")
    BY <2>4, <2>5
  <2> HIDE DEF row, id
  <2>8. QED
    BY <2>1, <2>4, <2>6, <2>7, BackedAppend
<1>11. DraftBacked'
  BY <1>2, <1>10 DEF DraftBacked, Backed
<1>12. QED
  BY <1>9, <1>11

\* A cancellation releases what its order keeps, of the committed tables and of
\* the drafted ones alike.
LEMMA CommitCancelReserving ==
    ASSUME Reserving, NEW o \in DOMAIN orders, CommitCancel(o)
    PROVE  ReservationsExact' /\ DraftBacked'
<1> DEFINE u == orders[o].userId
           value == Escrow(orders[o].side, orders[o].remainingAmount,
                           orders[o].price)
           row == [orders[o] EXCEPT !.status = "CANCELLED"]
<1>1. /\ o \in DOMAIN cancels
      /\ orders' = [orders EXCEPT ![o].status = "CANCELLED"]
      /\ UNCHANGED <<tx, draft>>
      /\ u \notin DOMAIN draft.wallets
      /\ wallets' = [wallets EXCEPT ![u] = WalletAfterCancel(o)]
  BY DEF CommitCancel
<1>2. /\ orders[o].status \in ActiveStatuses
      /\ cancels[o] = orders[o].remainingAmount
      /\ o \notin tx.locks
      /\ orders[o] \in Order /\ u \in Users /\ orders[o].side \in Side
  BY <1>1, OrderRows
     DEF Reserving, Locked, LockDiscipline, CancelsHeld, Order
<1>3. WalletAfterCancel(o) = ReleaseFunds(wallets[u], orders[o].side, value)
  BY <1>2 DEF WalletAfterCancel
<1>4. /\ DOMAIN orders' = DOMAIN orders
      /\ orders'[o] = row
      /\ \A x \in DOMAIN orders \ {o} : orders'[x] = orders[x]
  BY <1>1, UpdatedOrder DEF OrderStatus, Reserving, Locked
<1>5. IsTable(orders) /\ PendingRows
  BY OrdersTable, PendingTable DEF Reserving, Locked
<1>6. TypeOK'
  BY CommitCancelLocked DEF Reserving, Locked
<1>7. IsTable(orders)' /\ PendingRows'
  BY <1>6, OrdersTable, PendingTable, PTL
<1>8. \A v \in Users :
         /\ EscrowFor(orders[o], v, "BUY")
               = IF v = u /\ orders[o].side = "BUY" THEN value ELSE 0
         /\ EscrowFor(orders[o], v, "SELL")
               = IF v = u /\ orders[o].side = "SELL" THEN value ELSE 0
         /\ EscrowFor(row, v, "BUY") = 0
         /\ EscrowFor(row, v, "SELL") = 0
  BY <1>2 DEF EscrowFor, Order, ActiveStatuses, BookStatuses
<1>9. value \in Int
  <2>1. value \in 0..EscrowBound
    BY <1>2, EscrowType DEF Order
  <2>2. QED
    BY <2>1, EscrowBoundNat, SMT
<1> HIDE DEF value, row
<1>10. /\ wallets'[u].reservedUsd = IF orders[o].side = "BUY"
                                    THEN wallets[u].reservedUsd - value
                                    ELSE wallets[u].reservedUsd
       /\ wallets'[u].reservedBtc = IF orders[o].side = "SELL"
                                    THEN wallets[u].reservedBtc - value
                                    ELSE wallets[u].reservedBtc
       /\ \A v \in Users \ {u} : wallets'[v] = wallets[v]
       /\ DOMAIN wallets' = Users /\ DOMAIN wallets = Users
  BY <1>1, <1>2, <1>3 DEF ReleaseFunds, Reserving, Locked, TypeOK, Wallet, Side
<1>11. \A v \in Users : /\ wallets[v].reservedUsd \in Int
                        /\ wallets[v].reservedBtc \in Int
  BY DecimalsAssumption DEF Reserving, Locked, TypeOK, Wallet, Money
<1>12. \A v \in Users :
          /\ wallets'[v].reservedUsd = wallets[v].reservedUsd
                - EscrowFor(orders[o], v, "BUY") + EscrowFor(row, v, "BUY")
          /\ wallets'[v].reservedBtc = wallets[v].reservedBtc
                - EscrowFor(orders[o], v, "SELL") + EscrowFor(row, v, "SELL")
  BY <1>2, <1>8, <1>9, <1>10, <1>11 DEF Side
<1>13. ReservationsExact'
  <2>1. Backed(orders, wallets)
    BY DEF Reserving, ReservationsExact
  <2>2. /\ ReservationMoved(wallets, wallets', orders[o], orders'[o])
        /\ OneRowChanged(orders, orders', o)
    BY <1>4, <1>12 DEF ReservationMoved, OneRowChanged
  <2>3. Backed(orders', wallets')
    BY <1>5, <1>7, <2>1, <2>2, BackedUpdate
  <2>4. QED
    BY <2>3 DEF ReservationsExact, Backed
<1>14. ASSUME tx.phase = "settle"
       PROVE  Backed(PendingOrders', SeenWallets')
  <2>1. Backed(PendingOrders, SeenWallets)
    BY <1>14 DEF Reserving, DraftBacked
  <2>2. /\ tx.taker \in DOMAIN orders /\ tx.taker # o
        /\ o \notin DOMAIN draft.orders
    BY <1>2, <1>14 DEF Reserving, Locked, LockDiscipline, TakerHeld, DraftHeld
  <2>3. /\ \A x \in DOMAIN orders \ {o} : SeenOrders'[x] = SeenOrders[x]
        /\ SeenOrders[o] = orders[o] /\ SeenOrders'[o] = row
    BY <1>1, <1>4, <2>2 DEF SeenOrders, Overlay
  <2>4. /\ DOMAIN PendingOrders' = DOMAIN PendingOrders
        /\ o \in DOMAIN PendingOrders
        /\ PendingOrders[o] = orders[o]
        /\ PendingOrders'[o] = row
        /\ \A x \in DOMAIN PendingOrders \ {o} :
              PendingOrders'[x] = PendingOrders[x]
    BY <1>1, <1>4, <1>5, <1>7, <2>2, <2>3 DEF PendingRows
  <2>5. /\ SeenWallets[u] = wallets[u] /\ SeenWallets'[u] = wallets'[u]
        /\ \A v \in Users \ {u} : SeenWallets'[v] = SeenWallets[v]
    BY <1>1, <1>2, <1>10 DEF SeenWallets, Overlay
  <2>6. \A v \in Users : /\ SeenWallets[v].reservedUsd \in Int
                         /\ SeenWallets[v].reservedBtc \in Int
    BY SeenBalances DEF Reserving
  <2>7. ASSUME NEW v \in Users
        PROVE  /\ SeenWallets'[v].reservedUsd = SeenWallets[v].reservedUsd
                     - EscrowFor(PendingOrders[o], v, "BUY")
                     + EscrowFor(PendingOrders'[o], v, "BUY")
               /\ SeenWallets'[v].reservedBtc = SeenWallets[v].reservedBtc
                     - EscrowFor(PendingOrders[o], v, "SELL")
                     + EscrowFor(PendingOrders'[o], v, "SELL")
    <3>1. CASE v = u
      BY <3>1, <1>2, <1>12, <2>4, <2>5
    <3>2. CASE v # u
      BY <3>2, <1>8, <2>4, <2>5, <2>6
    <3>3. QED
      BY <3>1, <3>2
  <2>8. IsTable(PendingOrders) /\ IsTable(PendingOrders')
    BY <1>5, <1>7 DEF PendingRows
  <2>9. /\ ReservationMoved(SeenWallets, SeenWallets',
                            PendingOrders[o], PendingOrders'[o])
        /\ OneRowChanged(PendingOrders, PendingOrders', o)
    BY <2>4, <2>7 DEF ReservationMoved, OneRowChanged
  <2>10. QED
    BY <2>1, <2>8, <2>9, BackedUpdate
<1>15. DraftBacked'
  BY <1>1, <1>14 DEF DraftBacked, Backed
<1>16. QED
  BY <1>13, <1>15

\* A rejection releases what its order keeps; nothing is drafted.
LEMMA RejectTakerReserving ==
    ASSUME Reserving, RejectTaker
    PROVE  ReservationsExact' /\ DraftBacked'
<1> DEFINE o == tx.taker
           u == Taker.userId
           value == Escrow(Taker.side, Taker.remainingAmount, Taker.price)
           row == [Taker EXCEPT !.status = "REJECTED"]
<1>1. /\ tx.phase = "reject" /\ tx' = Idle
      /\ orders' = [orders EXCEPT ![o].status = "REJECTED"]
      /\ wallets' = [wallets EXCEPT ![u] = ReleaseFunds(wallets[u], Taker.side, value)]
      /\ Taker.status = "QUEUED"
  BY DEF RejectTaker, WalletAfterRejection
<1>2. /\ o \in DOMAIN orders /\ Taker = orders[o]
      /\ Taker \in Order /\ u \in Users /\ Taker.side \in Side
  BY <1>1, TakerRow DEF Reserving
<1>3. /\ DOMAIN orders' = DOMAIN orders
      /\ orders'[o] = row
      /\ \A x \in DOMAIN orders \ {o} : orders'[x] = orders[x]
  BY <1>1, <1>2, UpdatedOrder DEF OrderStatus, Reserving, Locked
<1>4. IsTable(orders)
  BY OrdersTable DEF Reserving, Locked
<1>5. TypeOK'
  BY RejectTakerLocked DEF Reserving, Locked
<1>6. IsTable(orders)'
  BY <1>5, OrdersTable, PTL
<1>7. \A v \in Users :
         /\ EscrowFor(Taker, v, "BUY")
               = IF v = u /\ Taker.side = "BUY" THEN value ELSE 0
         /\ EscrowFor(Taker, v, "SELL")
               = IF v = u /\ Taker.side = "SELL" THEN value ELSE 0
         /\ EscrowFor(row, v, "BUY") = 0
         /\ EscrowFor(row, v, "SELL") = 0
  BY <1>1, <1>2 DEF EscrowFor, Order, ActiveStatuses, BookStatuses
<1>8. value \in Int
  <2>1. value \in 0..EscrowBound
    BY <1>2, EscrowType DEF Order
  <2>2. QED
    BY <2>1, EscrowBoundNat, SMT
<1> HIDE DEF value, row
<1>9. \A v \in Users : /\ wallets[v].reservedUsd \in Int
                       /\ wallets[v].reservedBtc \in Int
  BY DecimalsAssumption DEF Reserving, Locked, TypeOK, Wallet, Money
<1>10. /\ wallets'[u].reservedUsd = IF Taker.side = "BUY"
                                    THEN wallets[u].reservedUsd - value
                                    ELSE wallets[u].reservedUsd
       /\ wallets'[u].reservedBtc = IF Taker.side = "SELL"
                                    THEN wallets[u].reservedBtc - value
                                    ELSE wallets[u].reservedBtc
       /\ \A v \in Users \ {u} : wallets'[v] = wallets[v]
  BY <1>1, <1>2 DEF ReleaseFunds, Reserving, Locked, TypeOK, Wallet, Side
<1>11. \A v \in Users :
          /\ wallets'[v].reservedUsd = wallets[v].reservedUsd
                - EscrowFor(orders[o], v, "BUY") + EscrowFor(orders'[o], v, "BUY")
          /\ wallets'[v].reservedBtc = wallets[v].reservedBtc
                - EscrowFor(orders[o], v, "SELL") + EscrowFor(orders'[o], v, "SELL")
  BY <1>2, <1>3, <1>7, <1>8, <1>9, <1>10 DEF Side
<1>12. Backed(orders, wallets)
  BY DEF Reserving, ReservationsExact
<1>a. /\ ReservationMoved(wallets, wallets', orders[o], orders'[o])
      /\ OneRowChanged(orders, orders', o)
  BY <1>2, <1>3, <1>11 DEF ReservationMoved, OneRowChanged
<1>13. Backed(orders', wallets')
  BY <1>a, <1>4, <1>6, <1>12, BackedUpdate
<1>14. QED
  BY <1>1, <1>13 DEF ReservationsExact, DraftBacked, Backed, Idle

\* What an order keeps after trades, filled or not: nothing is left of it when
\* nothing of it is left.
LEMMA EscrowAfterTrades ==
    ASSUME NEW order \in Order, NEW left \in Money, NEW matched \in BOOLEAN,
           NEW u, NEW side \in Side
    PROVE  EscrowFor(AfterTrades(order, left, matched), u, side)
              = IF order.userId = u /\ order.side = side
                THEN Escrow(side, left, order.price) ELSE 0
<1> DEFINE row == AfterTrades(order, left, matched)
<1>1. /\ row.userId = order.userId /\ row.side = order.side
      /\ row.price = order.price /\ row.remainingAmount = left
      /\ row.status = IF ~matched THEN "OPEN"
                      ELSE IF left = 0 THEN "FILLED" ELSE "PARTIALLY_FILLED"
  BY DEF AfterTrades, Order
<1>2. Escrow(side, 0, order.price) = 0
  BY MultiplyScaledZero, MoneyNat DEF Escrow, Order
<1> HIDE DEF row
<1>3. EscrowFor(row, u, side) = IF order.userId = u /\ order.side = side
                                THEN Escrow(side, left, order.price) ELSE 0
  <2>1. CASE row.status = "FILLED"
    <3>1. left = 0
      BY <1>1, <2>1
    <3>2. QED
      BY <1>1, <1>2, <2>1, <3>1 DEF EscrowFor, ActiveStatuses, BookStatuses
  <2>2. CASE row.status # "FILLED"
    BY <1>1, <2>2 DEF EscrowFor, ActiveStatuses, BookStatuses
  <2>3. QED
    BY <2>1, <2>2
<1>4. QED
  BY <1>3 DEF row

LEMMA EscrowWhileActive ==
    ASSUME NEW order \in Order, order.status \in ActiveStatuses,
           NEW left \in Money, NEW u, NEW side \in Side
    PROVE  EscrowFor([order EXCEPT !.remainingAmount = left], u, side)
              = IF order.userId = u /\ order.side = side
                THEN Escrow(side, left, order.price) ELSE 0
BY DEF EscrowFor, Order

\* The committed rows keep what the pending ones do.
LEMMA CommitMatchReserving ==
    ASSUME Reserving, CommitMatch
    PROVE  ReservationsExact' /\ DraftBacked'
<1> DEFINE matched == draft.trades # <<>>
<1>1. /\ tx.phase = "settle" /\ tx' = Idle /\ wallets' = SeenWallets
      /\ tx.remaining \in Money
      /\ tx.taker \in DOMAIN orders
      /\ Taker = orders[tx.taker] /\ Taker \in Order
      /\ Taker.status \in ActiveStatuses
  BY TakerRow DEF CommitMatch, Reserving, Locked, LockDiscipline, TakerHeld,
                  ActiveStatuses, TypeOK, Transaction
<1>2. /\ DOMAIN orders' = DOMAIN orders
      /\ orders'[tx.taker] = AfterTrades(Taker, tx.remaining, matched)
      /\ \A o \in DOMAIN orders \ {tx.taker} : orders'[o] = SeenOrders[o]
  BY MatchedOrders DEF Reserving
<1>3. PendingRows
  BY PendingTable DEF Reserving, Locked
<1>4. ASSUME NEW o \in DOMAIN PendingOrders, NEW u \in Users, NEW side \in Side
      PROVE  EscrowFor(orders'[o], u, side) = EscrowFor(PendingOrders[o], u, side)
  <2>1. CASE o # tx.taker
    BY <2>1, <1>2, <1>3 DEF PendingRows
  <2>2. CASE o = tx.taker
    <3>1. PendingOrders[o] = [Taker EXCEPT !.remainingAmount = tx.remaining]
      BY <2>2, <1>1, <1>3 DEF PendingRows
    <3>2. orders'[o] = AfterTrades(Taker, tx.remaining, matched)
      BY <2>2, <1>2
    <3>3. matched \in BOOLEAN
      OBVIOUS
    <3> HIDE DEF matched
    <3>4. QED
      BY <3>1, <3>2, <3>3, <1>1, EscrowAfterTrades, EscrowWhileActive
  <2>3. QED
    BY <2>1, <2>2
<1>5. Backed(PendingOrders, SeenWallets)
  BY <1>1 DEF Reserving, DraftBacked
<1>6. DOMAIN orders' = DOMAIN PendingOrders
  BY <1>2, <1>3 DEF PendingRows
<1>7. Backed(orders', wallets')
  BY <1>1, <1>4, <1>5, <1>6, BackedSame
<1>8. QED
  BY <1>1, <1>7 DEF ReservationsExact, DraftBacked, Backed, Idle

\* What a settlement takes from the two reservations.
LEMMA SettledReservations ==
    ASSUME Locked, Settling
    PROVE  LET taker == SeenWallets[Taker.userId]
               maker == SeenWallets[orders[NextMaker.id].userId]
           IN  /\ TakerWallet.reservedUsd = IF Taker.side = "BUY"
                     THEN taker.reservedUsd - ReservedCost ELSE taker.reservedUsd
               /\ TakerWallet.reservedBtc = IF Taker.side = "SELL"
                     THEN taker.reservedBtc - TradeAmount ELSE taker.reservedBtc
               /\ MakerWallet.reservedUsd = IF Taker.side = "SELL"
                     THEN maker.reservedUsd - ReservedCost ELSE maker.reservedUsd
               /\ MakerWallet.reservedBtc = IF Taker.side = "BUY"
                     THEN maker.reservedBtc - TradeAmount ELSE maker.reservedBtc
<1> DEFINE taker == SeenWallets[Taker.userId]
           maker == SeenWallets[orders[NextMaker.id].userId]
<1>1. Taker.userId \in Users /\ Taker.side \in {"BUY", "SELL"}
  BY TakerRow DEF Settling, Side
<1>2. orders[NextMaker.id].userId \in Users
  BY NextMakerRow DEF Order
<1>3. taker \in Wallet /\ maker \in Wallet
  BY <1>1, <1>2, SeenWalletRow
<1>4. CASE Taker.side = "BUY"
  BY <1>3, <1>4 DEF TakerWallet, MakerWallet, WalletAfterBuying,
                    WalletAfterSelling, Wallet
<1>5. CASE Taker.side = "SELL"
  BY <1>3, <1>5 DEF TakerWallet, MakerWallet, WalletAfterBuying,
                    WalletAfterSelling, Wallet
<1>6. QED
  BY <1>1, <1>4, <1>5

\* The buyer's escrow shrinks by the reserved cost, the seller's by the amount.
LEMMA SettledEscrows ==
    ASSUME Locked, Settling
    PROVE  LET amount == TradeAmount
               bought == IF Taker.side = "BUY" THEN Taker ELSE orders[NextMaker.id]
               left == IF Taker.side = "BUY" THEN tx.remaining
                                             ELSE NextMaker.remainingAmount
           IN  Escrow("BUY", left - amount, bought.price)
                  = Escrow("BUY", left, bought.price) - ReservedCost
<1>1. CASE Taker.side = "BUY"
  <2>1. /\ tx.remaining \in Nat /\ tx.remaining - TradeAmount \in Nat
        /\ Taker.price \in Nat
    BY TakerRow, NextMakerRow, MoneyNat DEF Settling
  <2>2. /\ MultiplyScaled(tx.remaining, Taker.price) \in Nat
        /\ MultiplyScaled(tx.remaining - TradeAmount, Taker.price) \in Nat
    BY <2>1, MultiplyScaledNat
  <2>3. QED
    BY <1>1, <2>2, SMT DEF Escrow, ReservedCost, BuyReservationDebit
<1>2. CASE Taker.side # "BUY"
  <2>1. /\ NextMaker.remainingAmount \in Nat
        /\ NextMaker.remainingAmount - TradeAmount \in Nat
        /\ TradePrice \in Nat
    BY NextMakerRow, MoneyNat
  <2>2. /\ MultiplyScaled(NextMaker.remainingAmount, TradePrice) \in Nat
        /\ MultiplyScaled(NextMaker.remainingAmount - TradeAmount, TradePrice) \in Nat
    BY <2>1, MultiplyScaledNat
  <2>3. QED
    BY <1>2, <2>2, SMT DEF Escrow, ReservedCost, BuyReservationDebit, TradePrice
<1>3. QED
  BY <1>1, <1>2

\* A trade uses up of both orders' escrows exactly what it debits both wallets'
\* reservations.
LEMMA SettleMakerReserving ==
    ASSUME Reserving, SettleMaker
    PROVE  ReservationsExact' /\ DraftBacked'
<1> DEFINE m == NextMaker.id
           takerUser == Taker.userId
           makerUser == orders[m].userId
           takerBefore == [Taker EXCEPT !.remainingAmount = tx.remaining]
           takerAfter == [Taker EXCEPT !.remainingAmount = tx.remaining - TradeAmount]
           mid == [o \in DOMAIN orders |->
                     IF o = tx.taker THEN takerAfter ELSE SeenOrders[o]]
           midFunds == [u \in Users |->
                          IF u = takerUser THEN TakerWallet ELSE SeenWallets[u]]
<1>1. /\ Settling /\ BalancesAccepted /\ tx.phase = "settle"
      /\ Locked /\ TypeOK
      /\ UNCHANGED <<orders, wallets>>
      /\ draft'.orders = Write(draft.orders, m, MakerAfterTrade)
      /\ draft'.wallets = Write(Write(draft.wallets, takerUser, TakerWallet),
                                makerUser, MakerWallet)
  BY DEF SettleMaker, Settling, Reserving, Locked
<1>2. /\ tx'.phase = "settle" /\ tx'.taker = tx.taker
      /\ tx'.remaining = tx.remaining - TradeAmount
  BY <1>1 DEF SettleMaker, TypeOK, Transaction
<1>3. /\ tx.taker \in DOMAIN orders /\ Taker = orders[tx.taker]
      /\ Taker \in Order /\ takerUser \in Users /\ Taker.side \in Side
      /\ Taker.status \in ActiveStatuses
      /\ Taker.price \in Money
  BY <1>1, TakerRow DEF LockDiscipline, TakerHeld, Locked, ActiveStatuses
<1>4. /\ m \in DOMAIN orders /\ m # tx.taker
      /\ m \notin DOMAIN draft.orders
      /\ orders[m] \in Order /\ makerUser \in Users /\ orders[m].side \in Side
      /\ orders[m].status \in ActiveStatuses
      /\ makerUser # takerUser
      /\ orders[m].side # Taker.side
      /\ NextMaker.remainingAmount = orders[m].remainingAmount
      /\ TradePrice = orders[m].price
      /\ NextMaker.remainingAmount \in Money
      /\ tx.remaining \in Money /\ TradePrice \in Money
      /\ TradeAmount \in Money
      /\ tx.remaining - TradeAmount \in Money
      /\ NextMaker.remainingAmount - TradeAmount \in Money
  BY <1>1, NextMakerRow
     DEF IsEligibleMaker, Opposes, Order, ActiveStatuses, TradePrice
<1>5. /\ TradeAmount \in Int /\ ReservedCost \in Int
      /\ tx.remaining \in Int /\ NextMaker.remainingAmount \in Int
  BY <1>1, <1>4, PayableCost, DecimalsAssumption DEF Money
<1>6. \A u \in Users : /\ SeenWallets[u].reservedUsd \in Int
                       /\ SeenWallets[u].reservedBtc \in Int
  BY <1>1, SeenBalances
<1>7. ReservationsExact'
  BY <1>1 DEF Reserving, ReservationsExact, Backed
<1>8. PendingRows /\ PendingRows'
  <2>1. TypeOK'
    BY SettleMakerLocked DEF Reserving, Locked
  <2>2. QED
    BY <1>1, <2>1, PendingTable, PTL
<1>9. IsTable(orders)
  BY <1>1, OrdersTable
<1>10. /\ takerBefore \in Order /\ takerAfter \in Order
       /\ PendingOrders[tx.taker] = takerBefore
       /\ PendingOrders'[tx.taker] = takerAfter
  BY <1>1, <1>2, <1>3, <1>4, <1>8 DEF PendingRows, Order
<1>11. /\ SeenOrders[m] = orders[m] /\ SeenOrders'[m] = MakerAfterTrade
       /\ \A o \in DOMAIN orders \ {m} : SeenOrders'[o] = SeenOrders[o]
  BY <1>1, <1>4 DEF SeenOrders, Overlay, Write
<1>12. /\ \A u \in Users \ {takerUser, makerUser} : SeenWallets'[u] = SeenWallets[u]
       /\ SeenWallets'[takerUser] = TakerWallet
       /\ SeenWallets'[makerUser] = MakerWallet
  <2>1. wallets' = wallets /\ DOMAIN wallets = Users
    BY <1>1 DEF TypeOK
  <2>2. QED
    BY <1>1, <1>3, <1>4, <2>1 DEF SeenWallets, Overlay, Write
<1> HIDE DEF takerBefore, takerAfter
<1>13. /\ OneRowChanged(PendingOrders, mid, tx.taker)
       /\ mid[tx.taker] = takerAfter
       /\ mid[m] = orders[m]
       /\ IsTable(mid)
  BY <1>3, <1>4, <1>8, <1>10, <1>11 DEF OneRowChanged, PendingRows, IsTable
<1>14. /\ OneRowChanged(mid, PendingOrders', m)
       /\ PendingOrders'[m] = MakerAfterTrade
  BY <1>1, <1>2, <1>3, <1>4, <1>8, <1>10, <1>11, <1>13
     DEF OneRowChanged, PendingRows
<1>15. ReservationMoved(SeenWallets, midFunds, PendingOrders[tx.taker], mid[tx.taker])
  <2>1. ASSUME NEW u \in Users, NEW side \in Side
        PROVE  /\ EscrowFor(takerBefore, u, side)
                     = IF Taker.userId = u /\ Taker.side = side
                       THEN Escrow(side, tx.remaining, Taker.price) ELSE 0
               /\ EscrowFor(takerAfter, u, side)
                     = IF Taker.userId = u /\ Taker.side = side
                       THEN Escrow(side, tx.remaining - TradeAmount, Taker.price)
                       ELSE 0
    BY <1>3, <1>4, EscrowWhileActive DEF takerBefore, takerAfter
  <2>2. /\ Escrow("SELL", tx.remaining, Taker.price) = tx.remaining
        /\ Escrow("SELL", tx.remaining - TradeAmount, Taker.price)
              = tx.remaining - TradeAmount
    BY DEF Escrow
  <2>3. Escrow("BUY", tx.remaining, Taker.price) \in Int
    BY <1>3, <1>4, EscrowType, EscrowBoundNat DEF Side
  <2>4. Taker.side = "BUY" =>
           Escrow("BUY", tx.remaining - TradeAmount, Taker.price)
              = Escrow("BUY", tx.remaining, Taker.price) - ReservedCost
    BY <1>1, SettledEscrows
  <2>5. ASSUME NEW u \in Users
        PROVE  /\ midFunds[u].reservedUsd = SeenWallets[u].reservedUsd
                     - EscrowFor(takerBefore, u, "BUY")
                     + EscrowFor(takerAfter, u, "BUY")
               /\ midFunds[u].reservedBtc = SeenWallets[u].reservedBtc
                     - EscrowFor(takerBefore, u, "SELL")
                     + EscrowFor(takerAfter, u, "SELL")
    <3>1. CASE u # takerUser
      BY <3>1, <2>1, <1>6 DEF Side
    <3>2. CASE u = takerUser
      <4>1. /\ midFunds[u].reservedUsd = IF Taker.side = "BUY"
                  THEN SeenWallets[u].reservedUsd - ReservedCost
                  ELSE SeenWallets[u].reservedUsd
            /\ midFunds[u].reservedBtc = IF Taker.side = "SELL"
                  THEN SeenWallets[u].reservedBtc - TradeAmount
                  ELSE SeenWallets[u].reservedBtc
        BY <3>2, <1>1, <1>3, SettledReservations
      <4>2. QED
        BY <3>2, <4>1, <2>1, <2>2, <2>3, <2>4, <1>3, <1>5, <1>6 DEF Side
    <3>3. QED
      BY <3>1, <3>2
  <2>6. QED
    BY <2>5, <1>10, <1>13 DEF ReservationMoved
<1>16. ReservationMoved(midFunds, SeenWallets', mid[m], PendingOrders'[m])
  <2> DEFINE left == NextMaker.remainingAmount
  <2>1. ASSUME NEW u \in Users, NEW side \in Side
        PROVE  /\ EscrowFor(orders[m], u, side)
                     = IF makerUser = u /\ orders[m].side = side
                       THEN Escrow(side, left, TradePrice) ELSE 0
               /\ EscrowFor(MakerAfterTrade, u, side)
                     = IF makerUser = u /\ orders[m].side = side
                       THEN Escrow(side, left - TradeAmount, TradePrice) ELSE 0
    <3>1. EscrowFor(orders[m], u, side)
             = IF makerUser = u /\ orders[m].side = side
               THEN Escrow(side, left, TradePrice) ELSE 0
      BY <1>4 DEF EscrowFor
    <3>2. EscrowFor(MakerAfterTrade, u, side)
             = IF makerUser = u /\ orders[m].side = side
               THEN Escrow(side, left - TradeAmount, TradePrice) ELSE 0
      <4>1. MakerAfterTrade = AfterTrades(orders[m], left - TradeAmount, TRUE)
        BY DEF MakerAfterTrade
      <4>2. /\ orders[m] \in Order
            /\ left - TradeAmount \in Money
            /\ TRUE \in BOOLEAN
        BY <1>4
      <4>3. EscrowFor(AfterTrades(orders[m], left - TradeAmount, TRUE), u, side)
               = IF orders[m].userId = u /\ orders[m].side = side
                 THEN Escrow(side, left - TradeAmount, orders[m].price) ELSE 0
        BY <4>2, EscrowAfterTrades
      <4>4. orders[m].price = TradePrice
        BY DEF TradePrice
      <4>5. QED
        BY <4>1, <4>3, <4>4
    <3>3. QED
      BY <3>1, <3>2
  <2>2. /\ Escrow("SELL", left, TradePrice) = left
        /\ Escrow("SELL", left - TradeAmount, TradePrice) = left - TradeAmount
    BY DEF Escrow
  <2>3. Escrow("BUY", left, TradePrice) \in Int
    BY <1>4, EscrowType, EscrowBoundNat DEF Side
  <2>4. Taker.side = "SELL" =>
           Escrow("BUY", left - TradeAmount, TradePrice)
              = Escrow("BUY", left, TradePrice) - ReservedCost
    BY <1>1, <1>4, SettledEscrows
  <2>5. /\ Taker.side = "BUY" => orders[m].side = "SELL"
        /\ Taker.side = "SELL" => orders[m].side = "BUY"
        /\ Taker.side \in {"BUY", "SELL"}
    BY <1>3, <1>4 DEF Side
  <2>6. ASSUME NEW u \in Users
        PROVE  /\ SeenWallets'[u].reservedUsd = midFunds[u].reservedUsd
                     - EscrowFor(orders[m], u, "BUY")
                     + EscrowFor(MakerAfterTrade, u, "BUY")
               /\ SeenWallets'[u].reservedBtc = midFunds[u].reservedBtc
                     - EscrowFor(orders[m], u, "SELL")
                     + EscrowFor(MakerAfterTrade, u, "SELL")
    <3>1. CASE u = makerUser
      <4>1. /\ SeenWallets'[u].reservedUsd = IF Taker.side = "SELL"
                  THEN SeenWallets[u].reservedUsd - ReservedCost
                  ELSE SeenWallets[u].reservedUsd
            /\ SeenWallets'[u].reservedBtc = IF Taker.side = "BUY"
                  THEN SeenWallets[u].reservedBtc - TradeAmount
                  ELSE SeenWallets[u].reservedBtc
            /\ midFunds[u] = SeenWallets[u]
        BY <3>1, <1>1, <1>4, <1>12, SettledReservations
      <4>2. /\ EscrowFor(orders[m], u, "BUY") = IF orders[m].side = "BUY"
                  THEN Escrow("BUY", left, TradePrice) ELSE 0
            /\ EscrowFor(MakerAfterTrade, u, "BUY") = IF orders[m].side = "BUY"
                  THEN Escrow("BUY", left - TradeAmount, TradePrice) ELSE 0
            /\ EscrowFor(orders[m], u, "SELL") = IF orders[m].side = "SELL"
                  THEN left ELSE 0
            /\ EscrowFor(MakerAfterTrade, u, "SELL") = IF orders[m].side = "SELL"
                  THEN left - TradeAmount ELSE 0
        BY <3>1, <2>1, <2>2 DEF Side
      <4>3. /\ SeenWallets[u].reservedUsd \in Int
            /\ SeenWallets[u].reservedBtc \in Int
        BY <3>1, <1>6
      <4>4. CASE Taker.side = "BUY"
        BY <4>1, <4>2, <4>3, <4>4, <2>5, <1>5
      <4>5. CASE Taker.side = "SELL"
        BY <4>1, <4>2, <4>3, <4>5, <2>3, <2>4, <2>5, <1>5
      <4>6. QED
        BY <4>4, <4>5, <2>5
    <3>2. CASE u # makerUser
      <4>1. /\ EscrowFor(orders[m], u, "BUY") = 0
            /\ EscrowFor(MakerAfterTrade, u, "BUY") = 0
            /\ EscrowFor(orders[m], u, "SELL") = 0
            /\ EscrowFor(MakerAfterTrade, u, "SELL") = 0
        BY <3>2, <2>1 DEF Side
      <4>2. SeenWallets'[u] = midFunds[u]
        BY <3>2, <1>12
      <4>3. midFunds[u].reservedUsd \in Int /\ midFunds[u].reservedBtc \in Int
        <5>1. /\ TakerWallet.reservedUsd \in Int
              /\ TakerWallet.reservedBtc \in Int
          BY <1>1, DecimalsAssumption
             DEF BalancesAccepted, WithinBounds, Wallet, Money
        <5>2. QED
          BY <5>1, <1>6
      <4>4. QED
        BY <4>1, <4>2, <4>3
    <3>3. QED
      BY <3>1, <3>2
  <2>7. QED
    BY <2>6, <1>13, <1>14 DEF ReservationMoved
<1> HIDE DEF mid, midFunds
<1>17. Backed(PendingOrders', SeenWallets')
  <2>1. Backed(PendingOrders, SeenWallets)
    BY <1>1 DEF Reserving, DraftBacked
  <2>2. IsTable(PendingOrders) /\ IsTable(PendingOrders')
    BY <1>8 DEF PendingRows
  <2>3. Backed(mid, midFunds)
    BY <2>1, <2>2, <1>13, <1>15, BackedUpdate
  <2>4. QED
    BY <2>2, <2>3, <1>13, <1>14, <1>16, BackedUpdate
<1>18. QED
  BY <1>7, <1>17 DEF DraftBacked, Backed

LEMMA InitReserving == Init => Reserving
<1> SUFFICES ASSUME Init PROVE Reserving
  OBVIOUS
<1>1. Locked
  BY InitLocked
<1>2. DraftBacked
  BY DEF Init, Idle, DraftBacked
<1>3. ReservationsExact
  <2>1. DOMAIN orders = {}
    BY DEF Init
  <2>2. \A u \in Users : wallets[u].reservedUsd = 0 /\ wallets[u].reservedBtc = 0
    BY DEF Init
  <2>3. \A u, side : Reserved(orders, u, side) = 0
    BY <2>1, SumEmpty DEF Reserved
  <2>4. QED
    BY <2>2, <2>3 DEF ReservationsExact, Backed
<1>4. QED
  BY <1>1, <1>2, <1>3 DEF Reserving

LEMMA NextReserving == Reserving /\ [Next]_vars => Reserving'
<1> SUFFICES ASSUME Reserving, [Next]_vars
             PROVE  ReservationsExact' /\ DraftBacked'
  BY NextLocked DEF Reserving
<1>1. ASSUME NEW u \in Users, NEW form \in OrderForms, CreateOrder(u, form)
      PROVE  ReservationsExact' /\ DraftBacked'
  BY <1>1, CreateOrderReserving
<1>2. ASSUME NEW o \in DOMAIN orders,
             LockForCancel(o) \/ RefuseCancel(o) \/ AbortCancel(o)
      PROVE  ReservationsExact' /\ DraftBacked'
  BY <1>2, NoBalanceWrite DEF LockForCancel, RefuseCancel, AbortCancel
<1>3. ASSUME NEW o \in DOMAIN orders, CommitCancel(o)
      PROVE  ReservationsExact' /\ DraftBacked'
  BY <1>3, CommitCancelReserving
<1>4. ASSUME NEW o \in DOMAIN orders, NEW phase \in {"process", "reject"},
             LockMarket(o, phase)
      PROVE  ReservationsExact' /\ DraftBacked'
  BY <1>4, NoBalanceWrite DEF LockMarket, Idle
<1>5. CASE SkipProcessed
  BY <1>5, NoBalanceWrite DEF SkipProcessed, Idle
<1>6. CASE LockTaker \/ FindCandidate \/ LockCandidate
  <2>1. tx \in Transaction
    BY DEF Reserving, Locked, TypeOK
  <2>2. tx'.phase # "settle" /\ UNCHANGED <<orders, wallets>>
    BY <1>6, <2>1 DEF LockTaker, FindCandidate, LockCandidate, Transaction
  <2>3. QED
    BY <2>2, NoBalanceWrite
<1>7. CASE RejectTaker
  BY <1>7, RejectTakerReserving
<1>8. CASE EndSelection
  BY <1>8, EndSelectionReserving
<1>9. CASE SkipDust
  <2>1. tx \in Transaction
    BY DEF Reserving, Locked, TypeOK
  <2>2. /\ UNCHANGED <<orders, wallets, draft>>
        /\ tx'.phase = tx.phase /\ tx'.taker = tx.taker
        /\ tx'.remaining = tx.remaining
    BY <1>9, <2>1 DEF SkipDust, Transaction
  <2>3. QED
    BY <2>2, NoBalanceWrite
<1>10. CASE SettleMaker
  BY <1>10, SettleMakerReserving
<1>11. CASE CommitMatch
  BY <1>11, CommitMatchReserving
<1>12. CASE RefuseSettlement \/ RefuseRejection \/ Rollback
  BY <1>12, NoBalanceWrite
     DEF RefuseSettlement, RefuseRejection, Rollback, Undo, Idle
<1>13. CASE UNCHANGED vars
  BY <1>13, NoBalanceWrite DEF vars
<1>14. QED
  BY <1>1, <1>2, <1>3, <1>4, <1>5, <1>6, <1>7, <1>8, <1>9, <1>10, <1>11,
     <1>12, <1>13 DEF Next

LEMMA AlwaysReserving == Spec => []Reserving
BY InitReserving, NextReserving, PTL DEF Spec

\* A user's reserved balances are exactly what that user's active orders need,
\* after any number of trades, cancellations, rejections and rollbacks.
THEOREM ReservationsInvariant == Spec => []ReservationsExact
<1>1. Reserving => ReservationsExact
  BY DEF Reserving
<1>2. QED
  BY <1>1, AlwaysReserving, PTL

\* Between any two makers of a match the drafted rows are backed too.
THEOREM DraftInvariant == Spec => []DraftBacked
<1>1. Reserving => DraftBacked
  BY DEF Reserving
<1>2. QED
  BY <1>1, AlwaysReserving, PTL

-----------------------------------------------------------------------------
(* No write is refused for want of reserved funds *)

\* A wallet never holds less in reserve than one of its orders releases.
LEMMA ReleaseCovered ==
    ASSUME Reserving, NEW o \in DOMAIN orders,
           orders[o].status \in ActiveStatuses
    PROVE  LET wallet == ReleaseFunds(wallets[orders[o].userId], orders[o].side,
                            Escrow(orders[o].side, orders[o].remainingAmount,
                                   orders[o].price))
           IN  wallet.reservedBtc >= 0 /\ wallet.reservedUsd >= 0
<1> DEFINE u == orders[o].userId
           value == Escrow(orders[o].side, orders[o].remainingAmount,
                           orders[o].price)
<1>1. /\ orders[o] \in Order /\ u \in Users /\ orders[o].side \in Side
      /\ wallets[u] \in Wallet
  BY OrderRows DEF Reserving, Locked, TypeOK, Order
<1>2. /\ EscrowFor(orders[o], u, "BUY") <= wallets[u].reservedUsd
      /\ EscrowFor(orders[o], u, "SELL") <= wallets[u].reservedBtc
  BY <1>1, BackedCovers, OrdersTable
     DEF Reserving, Locked, ReservationsExact
<1>3. EscrowFor(orders[o], u, orders[o].side) = value
  BY DEF EscrowFor
<1>4. value \in Int
  BY <1>1, EscrowType, EscrowBoundNat DEF Order
<1>5. /\ wallets[u].reservedUsd \in Nat /\ wallets[u].reservedBtc \in Nat
  BY <1>1, DecimalsAssumption DEF Wallet, Money
<1> HIDE DEF value
<1>6. LET wallet == ReleaseFunds(wallets[u], orders[o].side, value)
      IN  wallet.reservedBtc >= 0 /\ wallet.reservedUsd >= 0
  <2>1. CASE orders[o].side = "BUY"
    BY <2>1, <1>1, <1>2, <1>3, <1>4, <1>5 DEF ReleaseFunds, Wallet
  <2>2. CASE orders[o].side = "SELL"
    BY <2>2, <1>1, <1>2, <1>3, <1>4, <1>5 DEF ReleaseFunds, Wallet
  <2>3. QED
    BY <2>1, <2>2, <1>1 DEF Side
<1>7. QED
  BY <1>6 DEF value

LEMMA SettlementCovered ==
    ASSUME Reserving, Settling
    PROVE  /\ Refund >= 0
           /\ TakerWallet.reservedBtc >= 0 /\ TakerWallet.reservedUsd >= 0
           /\ MakerWallet.reservedBtc >= 0 /\ MakerWallet.reservedUsd >= 0
<1> DEFINE m == NextMaker.id
           t == Taker.userId
           w == orders[m].userId
<1>1. Locked /\ TypeOK /\ tx.phase = "settle"
  BY DEF Reserving, Locked, Settling
<1>2. /\ tx.taker \in DOMAIN orders /\ Taker = orders[tx.taker]
      /\ Taker \in Order /\ t \in Users /\ Taker.side \in {"BUY", "SELL"}
      /\ Taker.status \in ActiveStatuses
      /\ Taker.price \in Money
  BY <1>1, TakerRow DEF LockDiscipline, TakerHeld, Locked, ActiveStatuses, Side
<1>3. /\ m \in DOMAIN orders /\ m # tx.taker
      /\ m \notin DOMAIN draft.orders
      /\ orders[m] \in Order /\ w \in Users
      /\ orders[m].side \in Side /\ orders[m].side # Taker.side
      /\ orders[m].status \in ActiveStatuses
      /\ NextMaker.remainingAmount = orders[m].remainingAmount
      /\ TradePrice = orders[m].price
      /\ TradeAmount \in Nat
      /\ tx.remaining \in Money /\ NextMaker.remainingAmount \in Money
      /\ TradePrice \in Money
      /\ tx.remaining - TradeAmount \in Money
      /\ NextMaker.remainingAmount - TradeAmount \in Money
      /\ TradeAmount <= tx.remaining
      /\ TradeAmount <= NextMaker.remainingAmount
  BY <1>1, NextMakerRow, DecimalsAssumption
     DEF IsEligibleMaker, Opposes, Order, ActiveStatuses, TradePrice, Money
<1>4. PendingRows
  BY <1>1, PendingTable
<1>5. /\ PendingOrders[tx.taker] = [Taker EXCEPT !.remainingAmount = tx.remaining]
      /\ PendingOrders[m] = orders[m]
  BY <1>2, <1>3, <1>4 DEF PendingRows, SeenOrders, Overlay
<1>6. /\ EscrowFor(PendingOrders[tx.taker], t, Taker.side)
            = Escrow(Taker.side, tx.remaining, Taker.price)
      /\ EscrowFor(PendingOrders[m], w, orders[m].side)
            = Escrow(orders[m].side, NextMaker.remainingAmount, TradePrice)
  BY <1>2, <1>3, <1>5 DEF EscrowFor, Order
<1>7. /\ EscrowFor(PendingOrders[tx.taker], t, "BUY") <= SeenWallets[t].reservedUsd
      /\ EscrowFor(PendingOrders[tx.taker], t, "SELL") <= SeenWallets[t].reservedBtc
      /\ EscrowFor(PendingOrders[m], w, "BUY") <= SeenWallets[w].reservedUsd
      /\ EscrowFor(PendingOrders[m], w, "SELL") <= SeenWallets[w].reservedBtc
  <2>1. Backed(PendingOrders, SeenWallets)
    BY <1>1 DEF Reserving, DraftBacked
  <2>2. /\ IsTable(PendingOrders)
        /\ tx.taker \in DOMAIN PendingOrders /\ m \in DOMAIN PendingOrders
    BY <1>2, <1>3, <1>4 DEF PendingRows
  <2>3. QED
    BY <1>2, <1>3, <2>1, <2>2, BackedCovers
<1>8. /\ Taker.side = "BUY" => ReservedCost <= Escrow("BUY", tx.remaining, Taker.price)
      /\ Taker.side = "SELL" =>
            ReservedCost <= Escrow("BUY", NextMaker.remainingAmount, TradePrice)
  <2>1. /\ Escrow("BUY", tx.remaining - TradeAmount, Taker.price) \in 0..EscrowBound
        /\ Escrow("BUY", NextMaker.remainingAmount - TradeAmount, TradePrice)
              \in 0..EscrowBound
        /\ Escrow("BUY", tx.remaining, Taker.price) \in 0..EscrowBound
        /\ Escrow("BUY", NextMaker.remainingAmount, TradePrice) \in 0..EscrowBound
    BY <1>2, <1>3, EscrowType DEF Side
  <2>2. /\ Taker.side = "BUY" =>
              Escrow("BUY", tx.remaining - TradeAmount, Taker.price)
                 = Escrow("BUY", tx.remaining, Taker.price) - ReservedCost
        /\ Taker.side = "SELL" =>
              Escrow("BUY", NextMaker.remainingAmount - TradeAmount, TradePrice)
                 = Escrow("BUY", NextMaker.remainingAmount, TradePrice)
                      - ReservedCost
    BY <1>1, <1>3, SettledEscrows
  <2>3. ReservedCost \in Int
    BY <1>1, PayableCost
  <2>4. QED
    BY <2>1, <2>2, <2>3, EscrowBoundNat
<1>9. /\ SeenWallets[t].reservedUsd \in Nat /\ SeenWallets[t].reservedBtc \in Nat
      /\ SeenWallets[w].reservedUsd \in Nat /\ SeenWallets[w].reservedBtc \in Nat
  <2>1. SeenWallets[t] \in Wallet /\ SeenWallets[w] \in Wallet
    BY <1>1, <1>2, <1>3, SeenWalletRow
  <2>2. QED
    BY <2>1, DecimalsAssumption DEF Wallet, Money
<1>10. /\ ReservedCost \in Nat /\ ExecutedCost \in Nat
       /\ ExecutedCost <= ReservedCost
  BY <1>1, PayableCost
<1>11. /\ TakerWallet.reservedUsd = IF Taker.side = "BUY"
             THEN SeenWallets[t].reservedUsd - ReservedCost
             ELSE SeenWallets[t].reservedUsd
       /\ TakerWallet.reservedBtc = IF Taker.side = "SELL"
             THEN SeenWallets[t].reservedBtc - TradeAmount
             ELSE SeenWallets[t].reservedBtc
       /\ MakerWallet.reservedUsd = IF Taker.side = "SELL"
             THEN SeenWallets[w].reservedUsd - ReservedCost
             ELSE SeenWallets[w].reservedUsd
       /\ MakerWallet.reservedBtc = IF Taker.side = "BUY"
             THEN SeenWallets[w].reservedBtc - TradeAmount
             ELSE SeenWallets[w].reservedBtc
  BY <1>1, SettledReservations
<1>12. Refund >= 0
  BY <1>10 DEF Refund
<1>13. /\ Escrow("BUY", tx.remaining, Taker.price) \in Int
       /\ Escrow("BUY", NextMaker.remainingAmount, TradePrice) \in Int
       /\ Escrow("SELL", tx.remaining, Taker.price) = tx.remaining
       /\ Escrow("SELL", NextMaker.remainingAmount, TradePrice)
             = NextMaker.remainingAmount
       /\ tx.remaining \in Nat /\ NextMaker.remainingAmount \in Nat
  <2>1. /\ Escrow("BUY", tx.remaining, Taker.price) \in 0..EscrowBound
        /\ Escrow("BUY", NextMaker.remainingAmount, TradePrice) \in 0..EscrowBound
    BY <1>2, <1>3, EscrowType DEF Side
  <2>2. tx.remaining \in Nat /\ NextMaker.remainingAmount \in Nat
    BY <1>3, DecimalsAssumption DEF Money
  <2>3. /\ Escrow("SELL", tx.remaining, Taker.price) = tx.remaining
        /\ Escrow("SELL", NextMaker.remainingAmount, TradePrice)
              = NextMaker.remainingAmount
    BY DEF Escrow
  <2>4. QED
    BY <2>1, <2>2, <2>3, EscrowBoundNat
<1>14. CASE Taker.side = "BUY"
  <2>1. orders[m].side = "SELL"
    BY <1>14, <1>3 DEF Side
  <2>2. /\ Escrow("BUY", tx.remaining, Taker.price) <= SeenWallets[t].reservedUsd
        /\ NextMaker.remainingAmount <= SeenWallets[w].reservedBtc
    BY <1>14, <2>1, <1>6, <1>7, <1>13
  <2>3. QED
    BY <1>3, <1>8, <1>9, <1>10, <1>11, <1>12, <1>13, <1>14, <2>2
<1>15. CASE Taker.side = "SELL"
  <2>1. orders[m].side = "BUY"
    BY <1>15, <1>3 DEF Side
  <2>2. /\ Escrow("BUY", NextMaker.remainingAmount, TradePrice)
              <= SeenWallets[w].reservedUsd
        /\ tx.remaining <= SeenWallets[t].reservedBtc
    BY <1>15, <2>1, <1>6, <1>7, <1>13
  <2>3. QED
    BY <1>3, <1>8, <1>9, <1>10, <1>11, <1>12, <1>13, <1>15, <2>2
<1>16. QED
  BY <1>2, <1>14, <1>15

\* A settlement, a cancellation or a rejection is refused only when a balance
\* would outgrow its column: it never finds less reserved than it needs, and
\* the executed cost never exceeds what the buyer reserved for it.
THEOREM NeverShortOfFunds == Spec => []RefusedOnlyAtCapacity
<1>1. Reserving => RefusedOnlyAtCapacity
  <2> SUFFICES ASSUME Reserving PROVE RefusedOnlyAtCapacity
    OBVIOUS
  <2>1. ASSUME NEW o \in DOMAIN cancels
        PROVE  /\ WalletAfterCancel(o).reservedBtc >= 0
               /\ WalletAfterCancel(o).reservedUsd >= 0
    <3>1. /\ o \in DOMAIN orders /\ orders[o].status \in ActiveStatuses
          /\ cancels[o] = orders[o].remainingAmount
      BY DEF Reserving, Locked, TypeOK, LockDiscipline, CancelsHeld
    <3>2. QED
      BY <3>1, ReleaseCovered DEF WalletAfterCancel
  <2>2. ASSUME tx.phase = "reject", Taker.status = "QUEUED"
        PROVE  /\ WalletAfterRejection.reservedBtc >= 0
               /\ WalletAfterRejection.reservedUsd >= 0
    <3>1. /\ tx.taker \in DOMAIN orders /\ Taker = orders[tx.taker]
          /\ orders[tx.taker].status \in ActiveStatuses
      BY <2>2, TakerRow DEF Reserving, ActiveStatuses
    <3>2. QED
      BY <3>1, ReleaseCovered DEF WalletAfterRejection
  <2>3. QED
    BY <2>1, <2>2, SettlementCovered DEF RefusedOnlyAtCapacity
<1>2. QED
  BY <1>1, AlwaysReserving, PTL
=============================================================================
