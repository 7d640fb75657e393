-------------------------- MODULE ArithmeticLemmas --------------------------
(***************************************************************************)
(* Facts about arithmetic, cited by name in the proofs of the other         *)
(* modules: the totals of module Totals, and the fixed-point numbers of     *)
(* module Balances (helper/math of deepbook), for every Scale.  Each one    *)
(* that speaks of every index is proved by taking a least index at which it *)
(* fails.                                                                   *)
(***************************************************************************)
EXTENDS Totals, Balances, WellFoundedInduction, TLAPS

(***************************************************************************)
(* The least number principle, from the well-foundedness of < on Nat.       *)
(***************************************************************************)
LEMMA LeastElement ==
    ASSUME NEW T, T \subseteq Nat, T # {}
    PROVE  \E x \in T : \A y \in T : ~ (y < x)
<1>1. IsWellFoundedOn(OpToRel(<, Nat), Nat)
  BY NatLessThanWellFounded, Zenon
<1>2. \E x \in T : \A y \in T : ~ (<<y, x>> \in OpToRel(<, Nat))
  BY <1>1, WFMin, Zenon
<1>3. \A x \in T, y \in T : y < x => <<y, x>> \in OpToRel(<, Nat)
  BY DEF OpToRel
<1>4. QED
  BY <1>2, <1>3, Zenon

(* g satisfies the recursive equation of the prefix sums of f. *)
IsPrefixSum(g, f, n) ==
    g = [i \in 0..n |-> IF i = 0 THEN 0 ELSE g[i - 1] + f[i]]

(***************************************************************************)
(* A function that satisfies the recursive equation of PrefixSum exists.    *)
(***************************************************************************)
LEMMA PrefixSumExists ==
    ASSUME NEW f, NEW n \in Nat
    PROVE  \E g : IsPrefixSum(g, f, n)
<1> DEFINE T == {m \in Nat : ~ \E g : IsPrefixSum(g, f, m)}
<1>1. SUFFICES ASSUME T # {} PROVE FALSE
  OBVIOUS
<1>2. PICK m \in T : \A y \in T : ~ (y < m)
  BY <1>1, LeastElement
<1>3. CASE m = 0
  <2> DEFINE g == [i \in 0..0 |-> 0]
  <2>1. IsPrefixSum(g, f, 0)
    BY DEF IsPrefixSum
  <2> QED BY <1>3, <2>1
<1>4. CASE m # 0
  <2>1. m - 1 \in Nat /\ m \in Nat /\ ~ (m - 1 \in T)
    BY <1>2, <1>4
  <2>2. PICK g : IsPrefixSum(g, f, m - 1)
    BY <2>1
  <2> DEFINE h == [i \in 0..m |-> IF i = m THEN g[m - 1] + f[m] ELSE g[i]]
  <2>3. ASSUME NEW i \in 0..m
        PROVE  h[i] = IF i = 0 THEN 0 ELSE h[i - 1] + f[i]
    BY <1>4, <2>1, <2>2 DEF IsPrefixSum
  <2>4. IsPrefixSum(h, f, m)
    BY <2>3 DEF IsPrefixSum
  <2> QED BY <2>4
<1>5. QED BY <1>3, <1>4

(***************************************************************************)
(* PrefixSum, which TLA+ defines as a CHOOSE, satisfies its equation.       *)
(***************************************************************************)
LEMMA PrefixSumUnfold ==
    ASSUME NEW f, NEW n \in Nat
    PROVE  IsPrefixSum(PrefixSum(f, n), f, n)
<1>1. \E g : IsPrefixSum(g, f, n)
  BY PrefixSumExists
<1>2. QED
  BY <1>1 DEF PrefixSum, IsPrefixSum

(***************************************************************************)
(* The same principle for a set of indices: a property of prefix sums that  *)
(* fails somewhere fails at a least index.                                  *)
(***************************************************************************)
LEMMA LeastIndex ==
    ASSUME NEW n \in Nat, NEW T, T \subseteq 0..n, T # {}
    PROVE  \E i \in T : \A y \in T : ~ (y < i)
<1>1. T \subseteq Nat
  OBVIOUS
<1>2. QED
  BY <1>1, LeastElement

(***************************************************************************)
(* Every prefix sum of integers is an integer and unfolds one step.         *)
(***************************************************************************)
LEMMA PrefixSumFacts ==
    ASSUME NEW n \in Nat, NEW f, \A i \in 1..n : f[i] \in Int
    PROVE  \A i \in 0..n :
              /\ PrefixSum(f, n)[i] = IF i = 0 THEN 0
                                            ELSE PrefixSum(f, n)[i - 1] + f[i]
              /\ PrefixSum(f, n)[i] \in Int
<1> DEFINE s == PrefixSum(f, n)
           T == {i \in 0..n : ~ (s[i] \in Int)}
<1>1. \A i \in 0..n : s[i] = IF i = 0 THEN 0 ELSE s[i - 1] + f[i]
  BY PrefixSumUnfold DEF IsPrefixSum
<1> HIDE DEF s
<1>2. T = {}
  <2>1. SUFFICES ASSUME T # {} PROVE FALSE
    OBVIOUS
  <2>2. PICK i \in T : \A y \in T : ~ (y < i)
    BY <2>1, LeastIndex
  <2>3. i # 0
    BY <1>1
  <2>4. i - 1 \in 0..n /\ ~ (i - 1 \in T)
    BY <2>2, <2>3
  <2>5. QED
    BY <1>1, <2>2, <2>3, <2>4
<1>3. QED
  BY <1>1, <1>2 DEF s

(***************************************************************************)
(* The total of integers is an integer.                                     *)
(***************************************************************************)
LEMMA TotalType ==
    ASSUME NEW n \in Nat, NEW f, \A i \in 1..n : f[i] \in Int
    PROVE  Total(f, n) \in Int
BY PrefixSumFacts DEF Total

(***************************************************************************)
(* A total grows with its terms.                                            *)
(***************************************************************************)
LEMMA TotalMonotone ==
    ASSUME NEW n \in Nat, NEW f, NEW g,
           \A i \in 1..n : f[i] \in Int /\ g[i] \in Int /\ f[i] <= g[i]
    PROVE  Total(f, n) <= Total(g, n)
<1> DEFINE s == PrefixSum(f, n)
           t == PrefixSum(g, n)
           T == {i \in 0..n : ~ (s[i] <= t[i])}
<1>1. \A i \in 0..n : /\ s[i] = IF i = 0 THEN 0 ELSE s[i - 1] + f[i]
                      /\ t[i] = IF i = 0 THEN 0 ELSE t[i - 1] + g[i]
                      /\ s[i] \in Int
                      /\ t[i] \in Int
  BY PrefixSumFacts
<1>2. Total(f, n) = s[n] /\ Total(g, n) = t[n]
  BY DEF Total
<1> HIDE DEF s, t
<1>3. SUFFICES ASSUME T # {} PROVE FALSE
  BY <1>2
<1>4. PICK i \in T : \A y \in T : ~ (y < i)
  BY <1>3, LeastIndex
<1>5. i # 0
  BY <1>1
<1>6. i - 1 \in 0..n /\ ~ (i - 1 \in T)
  BY <1>4, <1>5
<1>7. QED
  BY <1>1, <1>4, <1>5, <1>6

(***************************************************************************)
(* Changing one term changes the total by the difference.                   *)
(***************************************************************************)
LEMMA TotalUpdate ==
    ASSUME NEW n \in Nat, NEW f, NEW g, NEW k \in 1..n,
           \A i \in 1..n : f[i] \in Int /\ g[i] \in Int,
           \A i \in 1..n : i # k => f[i] = g[i]
    PROVE  Total(g, n) = Total(f, n) + g[k] - f[k]
<1> DEFINE s == PrefixSum(f, n)
           t == PrefixSum(g, n)
           Shift(i) == IF i < k THEN 0 ELSE g[k] - f[k]
           T == {i \in 0..n : t[i] # s[i] + Shift(i)}
<1>1. \A i \in 0..n : /\ s[i] = IF i = 0 THEN 0 ELSE s[i - 1] + f[i]
                      /\ t[i] = IF i = 0 THEN 0 ELSE t[i - 1] + g[i]
                      /\ s[i] \in Int
                      /\ t[i] \in Int
  BY PrefixSumFacts
<1>2. Total(f, n) = s[n] /\ Total(g, n) = t[n]
  BY DEF Total
<1> HIDE DEF s, t
<1>3. SUFFICES ASSUME T # {} PROVE FALSE
  BY <1>1, <1>2
<1>4. PICK i \in T : \A y \in T : ~ (y < i)
  BY <1>3, LeastIndex
<1>5. i # 0
  BY <1>1
<1>6. i - 1 \in 0..n /\ ~ (i - 1 \in T)
  BY <1>4, <1>5
<1>7. t[i - 1] = s[i - 1] + Shift(i - 1)
  BY <1>6
<1>8. CASE i = k
  BY <1>1, <1>4, <1>5, <1>6, <1>7, <1>8
<1>9. CASE i # k
  <2>1. i \in 1..n /\ f[i] = g[i]
    BY <1>5, <1>9
  <2>2. Shift(i) = Shift(i - 1)
    BY <1>9, <2>1
  <2>3. t[i] = t[i - 1] + f[i] /\ s[i] = s[i - 1] + f[i]
    BY <1>1, <1>5, <2>1
  <2>4. Shift(i) \in Int /\ s[i - 1] \in Int /\ f[i] \in Int
    BY <1>1, <1>6, <2>1
  <2> HIDE DEF Shift
  <2>5. t[i] = s[i] + Shift(i)
    BY <1>7, <2>2, <2>3, <2>4
  <2>6. QED
    BY <2>5
<1>10. QED
  BY <1>8, <1>9

(***************************************************************************)
(* The same, for integers that differ in one term.                          *)
(***************************************************************************)
OneChange(f, g, n, k) ==
    \A i \in 1..n : f[i] \in Int /\ g[i] \in Int /\ (i # k => f[i] = g[i])

(* A total changes by as much as its one term that changes.                  *)
LEMMA TotalOneChange ==
    ASSUME NEW n \in Nat, NEW f, NEW g, NEW k \in 1..n, OneChange(f, g, n, k)
    PROVE  Total(g, n) = Total(f, n) + g[k] - f[k]
<1>1. \A i \in 1..n : f[i] \in Int /\ g[i] \in Int
  BY DEF OneChange
<1>2. \A i \in 1..n : i # k => f[i] = g[i]
  BY DEF OneChange
<1> QED BY <1>1, <1>2, TotalUpdate, SMTT(60)

(***************************************************************************)
(* A total of zeros is zero.                                                *)
(***************************************************************************)
LEMMA TotalZero ==
    ASSUME NEW n \in Nat, NEW f, \A i \in 1..n : f[i] = 0
    PROVE  Total(f, n) = 0
<1> DEFINE s == PrefixSum(f, n)
           T == {i \in 0..n : s[i] # 0}
<1>1. \A i \in 0..n : s[i] = IF i = 0 THEN 0 ELSE s[i - 1] + f[i]
  BY PrefixSumUnfold DEF IsPrefixSum
<1>2. Total(f, n) = s[n]
  BY DEF Total
<1> HIDE DEF s
<1>3. SUFFICES ASSUME T # {} PROVE FALSE
  BY <1>2
<1>4. PICK i \in T : \A y \in T : ~ (y < i)
  BY <1>3, LeastIndex
<1>5. i # 0
  BY <1>1
<1>6. i - 1 \in 0..n /\ ~ (i - 1 \in T)
  BY <1>4, <1>5
<1>7. QED
  BY <1>1, <1>4, <1>5, <1>6

(***************************************************************************)
(* No term exceeds the total of non-negative terms.                         *)
(***************************************************************************)
LEMMA TotalElement ==
    ASSUME NEW n \in Nat, NEW f, NEW k \in 1..n, \A i \in 1..n : f[i] \in Nat
    PROVE  f[k] <= Total(f, n)
<1> DEFINE z == [i \in 1..n |-> 0]
           g == [i \in 1..n |-> IF i = k THEN f[k] ELSE 0]
<1>1. Total(z, n) = 0
  BY TotalZero
<1>2. Total(g, n) = Total(z, n) + g[k] - z[k]
  BY TotalUpdate, SMTT(60)
<1>3. Total(g, n) <= Total(f, n)
  BY TotalMonotone
<1>4. QED
  BY <1>1, <1>2, <1>3, TotalType

(***************************************************************************)
(* The total of natural numbers is a natural number.                        *)
(***************************************************************************)
LEMMA TotalNat ==
    ASSUME NEW n \in Nat, NEW f, \A i \in 1..n : f[i] \in Nat
    PROVE  Total(f, n) \in Nat
<1> DEFINE z == [i \in 1..n |-> 0]
<1>1. Total(z, n) = 0
  BY TotalZero
<1>2. Total(z, n) <= Total(f, n)
  BY TotalMonotone
<1>3. QED
  BY <1>1, <1>2, TotalType

(***************************************************************************)
(* The total of sums is the sum of totals.                                  *)
(***************************************************************************)
LEMMA TotalAdd ==
    ASSUME NEW n \in Nat, NEW f, NEW g, NEW h,
           \A i \in 1..n : /\ f[i] \in Int
                            /\ g[i] \in Int
                            /\ h[i] = f[i] + g[i]
    PROVE  Total(h, n) = Total(f, n) + Total(g, n)
<1> DEFINE s == PrefixSum(f, n)
           t == PrefixSum(g, n)
           u == PrefixSum(h, n)
           T == {i \in 0..n : u[i] # s[i] + t[i]}
<1>1. \A i \in 0..n : /\ s[i] = IF i = 0 THEN 0 ELSE s[i - 1] + f[i]
                      /\ t[i] = IF i = 0 THEN 0 ELSE t[i - 1] + g[i]
                      /\ u[i] = IF i = 0 THEN 0 ELSE u[i - 1] + h[i]
                      /\ s[i] \in Int
                      /\ t[i] \in Int
  BY PrefixSumFacts
<1>2. Total(f, n) = s[n] /\ Total(g, n) = t[n] /\ Total(h, n) = u[n]
  BY DEF Total
<1> HIDE DEF s, t, u
<1>3. SUFFICES ASSUME T # {} PROVE FALSE
  BY <1>2
<1>4. PICK i \in T : \A y \in T : ~ (y < i)
  BY <1>3, LeastIndex
<1>5. i # 0
  BY <1>1
<1>6. i - 1 \in 0..n /\ ~ (i - 1 \in T)
  BY <1>4, <1>5
<1>7. QED
  BY <1>1, <1>4, <1>5, <1>6

(***************************************************************************)
(* A common factor may be taken out of a total.                             *)
(***************************************************************************)
LEMMA TotalTimes ==
    ASSUME NEW n \in Nat, NEW c \in Int, NEW f, NEW h,
           \A i \in 1..n : f[i] \in Int /\ h[i] = f[i] * c
    PROVE  Total(h, n) = Total(f, n) * c
<1> DEFINE s == PrefixSum(f, n)
           u == PrefixSum(h, n)
           T == {i \in 0..n : u[i] # s[i] * c}
<1>0. \A i \in 1..n : h[i] \in Int
  OBVIOUS
<1>1. \A i \in 0..n : /\ s[i] = IF i = 0 THEN 0 ELSE s[i - 1] + f[i]
                      /\ u[i] = IF i = 0 THEN 0 ELSE u[i - 1] + h[i]
                      /\ s[i] \in Int
  BY <1>0, PrefixSumFacts
<1>2. Total(f, n) = s[n] /\ Total(h, n) = u[n]
  BY DEF Total
<1> HIDE DEF s, u
<1>3. SUFFICES ASSUME T # {} PROVE FALSE
  BY <1>2
<1>4. PICK i \in T : \A y \in T : ~ (y < i)
  BY <1>3, LeastIndex
<1>5. i # 0
  BY <1>1
<1>6. i - 1 \in 0..n /\ i \in 1..n /\ ~ (i - 1 \in T)
  BY <1>4, <1>5
<1>7. u[i] = s[i - 1] * c + f[i] * c /\ s[i] = s[i - 1] + f[i]
  BY <1>1, <1>5, <1>6
<1>8. u[i] = s[i] * c
  BY <1>1, <1>6, <1>7
<1>9. QED
  BY <1>4, <1>8

(***************************************************************************)
(* One more index adds its value to a total.                                *)
(***************************************************************************)
LEMMA TotalExtend ==
    ASSUME NEW n \in Nat, NEW f, NEW g,
           \A i \in 1..(n + 1) : g[i] \in Int,
           \A i \in 1..n : f[i] = g[i]
    PROVE  Total(g, n + 1) = Total(f, n) + g[n + 1]
<1> DEFINE s == PrefixSum(f, n)
           u == PrefixSum(g, n + 1)
           T == {i \in 0..n : u[i] # s[i]}
<1>1. /\ \A i \in 0..n : /\ s[i] = IF i = 0 THEN 0 ELSE s[i - 1] + f[i]
                         /\ s[i] \in Int
      /\ \A i \in 0..(n + 1) : u[i] = IF i = 0 THEN 0 ELSE u[i - 1] + g[i]
  BY PrefixSumFacts
<1>2. Total(f, n) = s[n] /\ Total(g, n + 1) = u[n + 1]
  BY DEF Total
<1> HIDE DEF s, u
<1>3. u[n + 1] = u[n] + g[n + 1]
  BY <1>1
<1>4. SUFFICES ASSUME T # {} PROVE FALSE
  BY <1>2, <1>3
<1>5. PICK i \in T : \A y \in T : ~ (y < i)
  BY <1>4, LeastIndex
<1>6. i # 0
  BY <1>1
<1>7. i - 1 \in 0..n /\ i \in 1..n /\ ~ (i - 1 \in T)
  BY <1>5, <1>6
<1>8. QED
  BY <1>1, <1>5, <1>6, <1>7

-----------------------------------------------------------------------------
(* Fixed-point arithmetic.  The first facts are about natural numbers and   *)
(* split the products that the provers do not split themselves.             *)

(* \div rounds down.                                                         *)
LEMMA Floor ==
    ASSUME NEW a \in Int, NEW d \in Nat \ {0}
    PROVE  /\ a \div d \in Int
           /\ (a \div d) * d <= a
           /\ a < (a \div d) * d + d
           /\ a \in Nat => a \div d \in Nat
OBVIOUS

(* A quotient is the largest number whose product with d is within a.        *)
LEMMA FloorAtLeast ==
    ASSUME NEW a \in Int, NEW d \in Nat \ {0}, NEW q \in Int, q * d <= a
    PROVE  q <= a \div d
OBVIOUS

(* The converse bound.                                                       *)
LEMMA FloorAtMost ==
    ASSUME NEW a \in Int, NEW d \in Nat \ {0}, NEW q \in Int, a <= q * d
    PROVE  a \div d <= q
OBVIOUS

(* A factor may be multiplied on both sides.                                 *)
LEMMA TimesMonotone ==
    ASSUME NEW a \in Int, NEW b \in Int, NEW c \in Nat, a <= b
    PROVE  a * c <= b * c /\ c * a <= c * b
OBVIOUS

(* A positive factor may be cancelled.                                       *)
LEMMA TimesCancel ==
    ASSUME NEW a \in Int, NEW b \in Int, NEW c \in Nat \ {0}, a * c <= b * c
    PROVE  a <= b
OBVIOUS

(* Products of three factors.                                                *)
LEMMA TimesReorder ==
    ASSUME NEW a \in Int, NEW b \in Int, NEW c \in Int
    PROVE  /\ a * b \in Int /\ a * b = b * a
           /\ (a * b) * c = (a * c) * b
           /\ (a * b) * c = a * (b * c)
OBVIOUS

(* Products of sums.                                                         *)
LEMMA TimesDistributes ==
    ASSUME NEW a \in Int, NEW b \in Int, NEW c \in Int
    PROVE  /\ (a + b) * c = a * c + b * c /\ (a - b) * c = a * c - b * c
           /\ c * (a + b) = c * a + c * b /\ c * (a - b) = c * a - c * b
OBVIOUS

(* Products of natural numbers.                                              *)
LEMMA TimesNat ==
    ASSUME NEW a \in Nat, NEW b \in Nat
    PROVE  a * b \in Nat
OBVIOUS

-----------------------------------------------------------------------------
(* mul and mul_round_up enclose the product by less than one unit.           *)
LEMMA MulBounds ==
    ASSUME NEW x \in Nat, NEW y \in Nat
    PROVE  /\ mul(x, y) \in Nat /\ mul(x, y) * Scale <= x * y
           /\ mul_round_up(x, y) \in Nat /\ x * y <= mul_round_up(x, y) * Scale
<1>1. x * y \in Nat /\ Scale \in Nat \ {0} /\ x * y + Scale - 1 \in Nat
  BY ScaleAssumption, TimesNat
<1>2. mul(x, y) \in Nat /\ mul(x, y) * Scale <= x * y
  BY <1>1, Floor DEF mul
<1>3. mul_round_up(x, y) \in Nat /\ x * y <= mul_round_up(x, y) * Scale
  <2> DEFINE q == (x * y + Scale - 1) \div Scale
  <2>1. q \in Nat /\ q * Scale \in Int /\ x * y + Scale - 1 < q * Scale + Scale
    BY <1>1, Floor, TimesReorder
  <2> HIDE DEF q
  <2>2. x * y <= q * Scale
    BY <1>1, <2>1
  <2> QED BY <2>1, <2>2 DEF mul_round_up, q
<1> QED BY <1>2, <1>3

(* div and div_round_up enclose the quotient.                                *)
LEMMA DivBounds ==
    ASSUME NEW x \in Nat, NEW y \in Nat \ {0}
    PROVE  /\ div(x, y) \in Nat /\ div(x, y) * y <= x * Scale
           /\ div_round_up(x, y) \in Nat /\ x * Scale <= div_round_up(x, y) * y
<1>1. x * Scale \in Nat /\ x * Scale + y - 1 \in Nat
  BY ScaleAssumption, TimesNat
<1>2. div(x, y) \in Nat /\ div(x, y) * y <= x * Scale
  BY <1>1, Floor DEF div
<1>3. div_round_up(x, y) \in Nat /\ x * Scale <= div_round_up(x, y) * y
  <2> DEFINE a == x * Scale + y - 1
             q == a \div y
  <2> HIDE DEF a
  <2>1. a \in Nat /\ a = x * Scale + y - 1
    BY <1>1 DEF a
  <2>2. q \in Nat /\ a < q * y + y
    BY <2>1, Floor
  <2> HIDE DEF q
  <2>3. q * y \in Int
    BY <2>2, TimesReorder
  <2>4. x * Scale <= q * y
    BY <1>1, <2>1, <2>2, <2>3
  <2> QED BY <2>2, <2>4 DEF div_round_up, q, a
<1> QED BY <1>2, <1>3

(* mul is the largest number within the product.                             *)
LEMMA MulAtLeast ==
    ASSUME NEW x \in Nat, NEW y \in Nat, NEW q \in Int, q * Scale <= x * y
    PROVE  q <= mul(x, y)
BY ScaleAssumption, FloorAtLeast, TimesNat DEF mul

(* The converse bound.                                                       *)
LEMMA MulAtMost ==
    ASSUME NEW x \in Nat, NEW y \in Nat, NEW q \in Int, x * y <= q * Scale
    PROVE  mul(x, y) <= q
BY ScaleAssumption, FloorAtMost, TimesNat DEF mul

(* div is the largest number within the quotient.                            *)
LEMMA DivAtLeast ==
    ASSUME NEW x \in Nat, NEW y \in Nat \ {0}, NEW q \in Int, q * y <= x * Scale
    PROVE  q <= div(x, y)
BY ScaleAssumption, FloorAtLeast, TimesNat DEF div

(* The converse bound.                                                       *)
LEMMA DivAtMost ==
    ASSUME NEW x \in Nat, NEW y \in Nat \ {0}, NEW q \in Int, x * Scale <= q * y
    PROVE  div(x, y) <= q
BY ScaleAssumption, FloorAtMost, TimesNat DEF div

(* mul is monotone in both arguments.                                        *)
LEMMA MulMonotone ==
    ASSUME NEW x \in Nat, NEW y \in Nat, NEW v \in Nat, NEW w \in Nat, x <= v, y <= w
    PROVE  mul(x, y) <= mul(v, w)
<1>1. x * y <= v * w
  BY TimesMonotone
<1>2. mul(x, y) \in Nat /\ mul(x, y) * Scale <= x * y
  BY MulBounds
<1>3. mul(x, y) * Scale <= v * w
  BY <1>1, <1>2, ScaleAssumption, TimesNat
<1> QED BY <1>2, <1>3, MulAtLeast

(* div is monotone in what is divided.                                       *)
LEMMA DivMonotone ==
    ASSUME NEW x \in Nat, NEW v \in Nat, NEW y \in Nat \ {0}, x <= v
    PROVE  div(x, y) <= div(v, y)
<1>1. div(x, y) \in Nat /\ div(x, y) * y <= x * Scale
  BY DivBounds
<1>2. x * Scale <= v * Scale
  BY TimesMonotone, ScaleAssumption
<1>3. div(x, y) * y <= v * Scale
  <2>1. div(x, y) * y \in Int /\ x * Scale \in Int /\ v * Scale \in Int
    BY <1>1, TimesReorder, ScaleAssumption
  <2> QED BY <1>1, <1>2, <2>1
<1> QED BY <1>1, <1>3, DivAtLeast

(* A part that is at most the whole grows no faster than the whole.          *)
LEMMA MulLipschitz ==
    ASSUME NEW x \in Nat, NEW v \in Nat, NEW y \in Nat, x <= v, y <= Scale
    PROVE  x - mul(x, y) <= v - mul(v, y)
<1> DEFINE a == mul(x, y)
           b == mul(v, y)
           q == b - (v - x)
<1>1. a \in Nat /\ b \in Nat /\ b * Scale <= v * y
  BY MulBounds
<1>2. Scale \in Nat /\ v - x \in Nat
  BY ScaleAssumption
<1>3. (v - x) * y <= (v - x) * Scale
  BY <1>2, TimesMonotone
<1> HIDE DEF a, b
<1>4. /\ (v - x) * y = v * y - x * y
      /\ q * Scale = b * Scale - (v - x) * Scale
  BY <1>1, <1>2, TimesDistributes
<1>5. /\ v * y \in Int /\ x * y \in Int /\ b * Scale \in Int /\ (v - x) * Scale \in Int
      /\ q \in Int
  BY <1>1, <1>2, TimesReorder
<1> HIDE DEF q
<1>6. q * Scale <= x * y
  BY <1>1, <1>3, <1>4, <1>5
<1>7. q <= a
  BY <1>5, <1>6, MulAtLeast DEF a
<1>8. x - a <= v - b
  BY <1>1, <1>7 DEF q
<1> QED BY <1>8 DEF a, b

(* Nothing of an amount, or an amount of nothing, is nothing.                *)
LEMMA MulZero ==
    ASSUME NEW x \in Nat
    PROVE  mul(x, 0) = 0 /\ mul(0, x) = 0
<1>1. mul(x, 0) \in Nat /\ mul(0, x) \in Nat /\ mul(x, 0) <= 0 /\ mul(0, x) <= 0
  BY MulBounds, MulAtMost, ScaleAssumption
<1> QED BY <1>1

(* A ratio of at most one takes at most the whole.                           *)
LEMMA MulAtMostWhole ==
    ASSUME NEW x \in Nat, NEW y \in Nat, y <= Scale
    PROVE  mul(x, y) <= x
<1>1. x * y <= x * Scale
  BY TimesMonotone, ScaleAssumption
<1> QED BY <1>1, MulAtMost

(* A part has a ratio of at most one.                                        *)
LEMMA DivAtMostOne ==
    ASSUME NEW x \in Nat, NEW y \in Nat \ {0}, x <= y
    PROVE  div(x, y) <= Scale
<1>1. x * Scale <= Scale * y
  BY TimesMonotone, TimesReorder, ScaleAssumption
<1> QED BY <1>1, DivAtMost, ScaleAssumption

(* s of n shares, at the ratio of total and n, are worth at most the total.  *)
LEMMA SharesWithinTotal ==
    ASSUME NEW total \in Nat, NEW n \in Nat \ {0}, NEW s \in Nat, s <= n
    PROVE  mul(s, div(total, n)) <= total
<1> DEFINE q == div(total, n)
<1>1. q \in Nat /\ q * n <= total * Scale
  BY DivBounds
<1> HIDE DEF q
<1>2. s * q <= q * n
  BY <1>1, TimesMonotone, TimesReorder
<1>3. s * q <= total * Scale
  BY <1>1, <1>2, TimesNat, ScaleAssumption
<1>4. mul(s, q) <= total
  BY <1>1, <1>3, MulAtMost
<1> QED BY <1>4 DEF q

(* Shares rounded up as a withdrawal does are worth the amount that is       *)
(* withdrawn: the amount cannot exceed what is taken off the supply.         *)
LEMMA WithdrawalCovered ==
    ASSUME NEW held \in Nat, NEW ratio \in Nat, NEW amount \in Nat, mul(held, ratio) > 0
    PROVE  LET shares == mul_round_up(held, div_round_up(amount, mul(held, ratio)))
           IN  shares \in Nat /\ amount <= mul(shares, ratio)
<1> DEFINE w == mul(held, ratio)
           d == div_round_up(amount, w)
           shares == mul_round_up(held, d)
<1>1. w \in Nat \ {0} /\ w * Scale <= held * ratio
  BY MulBounds
<1>2. d \in Nat /\ amount * Scale <= d * w
  BY <1>1, DivBounds
<1>3. shares \in Nat /\ held * d <= shares * Scale
  BY <1>2, MulBounds
<1> HIDE DEF w, d, shares
<1>s. Scale \in Nat \ {0} /\ Scale * Scale \in Nat \ {0}
  BY ScaleAssumption
<1>4. (amount * Scale) * Scale <= (d * w) * Scale
  BY <1>1, <1>2, <1>s, TimesMonotone, TimesNat
<1>5. (d * w) * Scale <= d * (held * ratio)
  BY <1>1, <1>2, <1>s, TimesMonotone, TimesNat, TimesReorder
<1>6. d * (held * ratio) = (held * d) * ratio
  BY <1>2, TimesReorder
<1>7. (held * d) * ratio <= (shares * Scale) * ratio
  BY <1>2, <1>3, <1>s, TimesMonotone, TimesNat
<1>8. (shares * Scale) * ratio = (shares * ratio) * Scale
  BY <1>3, <1>s, TimesReorder
<1>9. amount * Scale \in Int /\ shares * ratio \in Int /\ d * w \in Int /\ held * d \in Int
  BY <1>1, <1>2, <1>3, <1>s, TimesNat
<1>10. (amount * Scale) * Scale <= (shares * ratio) * Scale
  <2> DEFINE a == (amount * Scale) * Scale
             b == (d * w) * Scale
             c == (held * d) * ratio
             e == (shares * ratio) * Scale
  <2>1. a \in Int /\ b \in Int /\ c \in Int /\ e \in Int
    BY <1>9, <1>s, TimesReorder
  <2>2. a <= b /\ b <= c /\ c <= e
    BY <1>4, <1>5, <1>6, <1>7, <1>8
  <2> HIDE DEF a, b, c, e
  <2>3. a <= e
    BY <2>1, <2>2
  <2> QED BY <2>3 DEF a, e
<1>11. amount * Scale <= shares * ratio
  BY <1>9, <1>10, <1>s, TimesCancel
<1>12. amount <= mul(shares, ratio)
  BY <1>3, <1>11, MulAtLeast
<1> QED BY <1>3, <1>12 DEF w, d, shares

(* Shares rounded down as a repayment does are worth at most what is paid:   *)
(* the loans cannot shrink by more than comes in.                            *)
LEMMA RepaymentCovers ==
    ASSUME NEW held \in Nat, NEW ratio \in Nat, NEW paid \in Nat,
           mul_round_up(held, ratio) > 0
    PROVE  LET shares == mul(held, div(paid, mul_round_up(held, ratio)))
           IN  /\ shares \in Nat /\ mul(shares, ratio) <= paid
               /\ paid <= mul_round_up(held, ratio) => shares <= held
<1> DEFINE debt == mul_round_up(held, ratio)
           d == div(paid, debt)
           shares == mul(held, d)
<1>1. debt \in Nat \ {0} /\ held * ratio <= debt * Scale
  BY MulBounds
<1>2. d \in Nat /\ d * debt <= paid * Scale
  BY <1>1, DivBounds
<1>3. shares \in Nat /\ shares * Scale <= held * d
  BY <1>2, MulBounds
<1>4. paid <= debt => shares <= held
  BY <1>1, <1>2, DivAtMostOne, MulAtMostWhole
<1> HIDE DEF debt, d, shares
<1>s. Scale \in Nat \ {0}
  BY ScaleAssumption
<1>5. (shares * Scale) * ratio <= (held * d) * ratio
  BY <1>2, <1>3, <1>s, TimesMonotone, TimesNat
<1>6. (held * d) * ratio = (held * ratio) * d
  BY <1>2, TimesReorder
<1>7. (held * ratio) * d <= (debt * Scale) * d
  BY <1>1, <1>2, <1>s, TimesMonotone, TimesNat
<1>8. (debt * Scale) * d = (d * debt) * Scale
  BY <1>1, <1>2, <1>s, TimesReorder
<1>9. (shares * Scale) * ratio = (shares * ratio) * Scale
  BY <1>3, <1>s, TimesReorder
<1>10. shares * ratio \in Int /\ d * debt \in Int /\ held * d \in Int /\ paid * Scale \in Int
  BY <1>1, <1>2, <1>3, <1>s, TimesNat
<1>11. (shares * ratio) * Scale <= (d * debt) * Scale
  <2> DEFINE a == (shares * ratio) * Scale
             b == (held * d) * ratio
             c == (d * debt) * Scale
  <2>1. a \in Int /\ b \in Int /\ c \in Int
    BY <1>10, <1>s, TimesReorder
  <2>2. a <= b /\ b <= c
    BY <1>5, <1>6, <1>7, <1>8, <1>9
  <2> HIDE DEF a, b, c
  <2>3. a <= c
    BY <2>1, <2>2
  <2> QED BY <2>3 DEF a, c
<1>12. shares * ratio <= d * debt
  BY <1>10, <1>11, <1>s, TimesCancel
<1>13. shares * ratio <= paid * Scale
  BY <1>2, <1>10, <1>12
<1>14. mul(shares, ratio) <= paid
  BY <1>3, <1>13, MulAtMost
<1> QED BY <1>3, <1>4, <1>14 DEF debt, d, shares

-----------------------------------------------------------------------------
(* Balance sheets. *)

(* new makes a sheet (balances::new).                                       *)
LEMMA NewSheet ==
    ASSUME NEW a \in Nat, NEW b \in Nat, NEW c \in Nat
    PROVE  /\ new(a, b, c) \in BalanceSheets
           /\ new(a, b, c)["base"] = a /\ new(a, b, c)["quote"] = b /\ new(a, b, c)["deep"] = c
BY DEF new, BalanceSheets, Assets

(* The empty sheet (balances::empty).                                       *)
LEMMA NothingSheet == Nothing \in BalanceSheets /\ \A x \in Assets : Nothing[x] = 0
BY DEF new, BalanceSheets, Assets, Nothing

(* Sheets are added asset by asset (add_balances).                          *)
LEMMA AddSheets ==
    ASSUME NEW a \in BalanceSheets, NEW b \in BalanceSheets
    PROVE  /\ add_balances(a, b) \in BalanceSheets
           /\ \A x \in Assets : add_balances(a, b)[x] = a[x] + b[x]
BY DEF BalanceSheets, add_balances

(* Sheets are scaled asset by asset (mul).                                  *)
LEMMA MulSheet ==
    ASSUME NEW a \in BalanceSheets, NEW r \in Nat
    PROVE  /\ mul_balances(a, r) \in BalanceSheets
           /\ \A x \in Assets : mul_balances(a, r)[x] = mul(a[x], r)
<1>1. \A x \in Assets : a[x] \in Nat
  BY DEF BalanceSheets
<1>2. \A x \in Assets : mul(a[x], r) \in Nat
  BY <1>1, MulBounds
<1> QED BY <1>2 DEF BalanceSheets, mul_balances
=============================================================================
