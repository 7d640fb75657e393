----------------------------- MODULE PoolProofs -----------------------------
(***************************************************************************)
(* Proofs about trading in a pool, for any number of balance managers,      *)
(* orders and epochs, any rates, prices, tick, lot and fill limits: the     *)
(* book is sound, matching follows price-time priority, and the vault       *)
(* covers what it owes, so that a cancel never aborts.                      *)
(***************************************************************************)
EXTENDS Pool, ArithmeticLemmas, FiniteSetTheorems

-----------------------------------------------------------------------------
(* What the matching loop of Book does to a book, for every book, every     *)
(* taker and every limit on fills: the facts about match_against_book and   *)
(* process_fills that the pool needs.                                       *)

(* Fees of parts of an order. *)

(* Rounding down: two parts are worth at most the whole (math::mul).        *)
LEMMA MulParts ==
    ASSUME NEW a \in Nat, NEW b \in Nat, NEW c \in Nat, NEW r \in Nat, a + b <= c
    PROVE  mul(a, r) + mul(b, r) <= mul(c, r)
<1> DEFINE p == mul(a, r)
           q == mul(b, r)
<1>1. p \in Nat /\ q \in Nat /\ p * Scale <= a * r /\ q * Scale <= b * r
  BY MulBounds
<1>2. a * r + b * r <= c * r
  <2>1. (a + b) * r <= c * r
    BY TimesMonotone
  <2>2. (a + b) * r = a * r + b * r
    BY TimesDistributes
  <2> QED BY <2>1, <2>2
<1> HIDE DEF p, q
<1>3. (p + q) * Scale = p * Scale + q * Scale
  BY <1>1, ScaleAssumption, TimesDistributes
<1>4. (p + q) * Scale <= c * r /\ p + q \in Int
  <2>1. p * Scale \in Int /\ q * Scale \in Int /\ a * r \in Int /\ b * r \in Int /\ c * r \in Int
    BY <1>1, ScaleAssumption, TimesNat
  <2> QED BY <1>1, <1>2, <1>3, <2>1
<1> QED BY <1>4, MulAtLeast DEF p, q

(* What a fee applies to is a sheet, and two parts give at most the whole   *)
(* (fee_quantity).                                                          *)
LEMMA FeeQuantity ==
    ASSUME NEW price \in OrderDeepPrice, NEW is_bid \in BOOLEAN, NEW a \in Nat, NEW q \in Nat
    PROVE  fee_quantity(price, a, q, is_bid) \in BalanceSheets
<1>1. PenaltyMultiplier \in Nat /\ price.deep_per_asset \in Nat
  BY BookAssumption DEF OrderDeepPrice
<1>2. /\ mul(a, price.deep_per_asset) \in Nat /\ mul(q, price.deep_per_asset) \in Nat
      /\ mul(q, PenaltyMultiplier) \in Nat /\ mul(a, PenaltyMultiplier) \in Nat
  BY <1>1, MulBounds
<1>3. 0 \in Nat
  OBVIOUS
<1> QED BY <1>2, <1>3, NewSheet DEF fee_quantity

(* The same for two parts of a quantity.                                    *)
LEMMA FeeQuantityParts ==
    ASSUME NEW price \in OrderDeepPrice, NEW is_bid \in BOOLEAN,
           NEW a \in Nat, NEW b \in Nat, NEW c \in Nat, a + b <= c,
           NEW q \in Nat, NEW r \in Nat, NEW s \in Nat, q + r <= s, NEW x \in Assets
    PROVE  fee_quantity(price, a, q, is_bid)[x] + fee_quantity(price, b, r, is_bid)[x]
             <= fee_quantity(price, c, s, is_bid)[x]
<1> DEFINE d == price.deep_per_asset
           p == PenaltyMultiplier
<1>1. p \in Nat /\ d \in Nat
  BY BookAssumption DEF OrderDeepPrice
<1>2. /\ mul(a, d) \in Nat /\ mul(b, d) \in Nat /\ mul(c, d) \in Nat
      /\ mul(a, d) + mul(b, d) <= mul(c, d)
  BY <1>1, MulBounds, MulParts
<1>3. /\ mul(q, d) \in Nat /\ mul(r, d) \in Nat /\ mul(s, d) \in Nat
      /\ mul(q, d) + mul(r, d) <= mul(s, d)
  BY <1>1, MulBounds, MulParts
<1>4. /\ mul(a, p) \in Nat /\ mul(b, p) \in Nat /\ mul(c, p) \in Nat
      /\ mul(a, p) + mul(b, p) <= mul(c, p)
  BY <1>1, MulBounds, MulParts
<1>5. /\ mul(q, p) \in Nat /\ mul(r, p) \in Nat /\ mul(s, p) \in Nat
      /\ mul(q, p) + mul(r, p) <= mul(s, p)
  BY <1>1, MulBounds, MulParts
<1>6. ASSUME NEW i \in Nat, NEW j \in Nat, NEW k \in Nat, i + j <= k
      PROVE  /\ new(0, 0, i)[x] + new(0, 0, j)[x] <= new(0, 0, k)[x]
             /\ new(0, i, 0)[x] + new(0, j, 0)[x] <= new(0, k, 0)[x]
             /\ new(i, 0, 0)[x] + new(j, 0, 0)[x] <= new(k, 0, 0)[x]
  BY <1>6 DEF new, Assets
<1>7. CASE d > 0
  BY <1>2, <1>3, <1>6, <1>7 DEF fee_quantity
<1>8. CASE ~ (d > 0)
  BY <1>4, <1>5, <1>6, <1>8 DEF fee_quantity
<1> QED BY <1>7, <1>8

(* The fee of an order (calculate_order_deep_price, fee_quantity).          *)
LEMMA FeeSheet ==
    ASSUME NEW o, o.deep_price \in OrderDeepPrice, o.is_bid \in BOOLEAN,
           NEW a \in Nat, NEW q \in Nat, NEW rate \in Nat
    PROVE  /\ FeeOf(o, a, q, rate) \in BalanceSheets
           /\ \A x \in Assets : FeeOf(o, a, q, rate)[x] \in Nat
<1>1. FeeOf(o, a, q, rate) \in BalanceSheets
  BY FeeQuantity, MulSheet DEF FeeOf
<1> QED BY <1>1 DEF BalanceSheets

(* Two parts of an order pay at most the fee of the whole.                  *)
LEMMA FeeParts ==
    ASSUME NEW o, o.deep_price \in OrderDeepPrice, o.is_bid \in BOOLEAN, NEW rate \in Nat,
           NEW a \in Nat, NEW b \in Nat, NEW c \in Nat, a + b <= c,
           NEW q \in Nat, NEW r \in Nat, NEW s \in Nat, q + r <= s, NEW x \in Assets
    PROVE  FeeOf(o, a, q, rate)[x] + FeeOf(o, b, r, rate)[x] <= FeeOf(o, c, s, rate)[x]
<1> DEFINE f == fee_quantity(o.deep_price, a, q, o.is_bid)
           g == fee_quantity(o.deep_price, b, r, o.is_bid)
           h == fee_quantity(o.deep_price, c, s, o.is_bid)
<1>1. f \in BalanceSheets /\ g \in BalanceSheets /\ h \in BalanceSheets
  BY FeeQuantity
<1>2. f[x] + g[x] <= h[x]
  BY FeeQuantityParts
<1>3. f[x] \in Nat /\ g[x] \in Nat /\ h[x] \in Nat
  BY <1>1 DEF BalanceSheets
<1>4. /\ FeeOf(o, a, q, rate) = mul_balances(f, rate)
      /\ FeeOf(o, b, r, rate) = mul_balances(g, rate)
      /\ FeeOf(o, c, s, rate) = mul_balances(h, rate)
  BY DEF FeeOf
<1> HIDE DEF f, g, h
<1>5. mul(f[x], rate) + mul(g[x], rate) <= mul(h[x], rate)
  BY <1>2, <1>3, MulParts
<1>6. /\ mul_balances(f, rate)[x] = mul(f[x], rate)
      /\ mul_balances(g, rate)[x] = mul(g[x], rate)
      /\ mul_balances(h, rate)[x] = mul(h[x], rate)
  BY <1>1, MulSheet
<1> QED BY <1>4, <1>5, <1>6

(* The funds of an order, without the fee.                                  *)
Funds(o, quantity) ==
    IF o.is_bid THEN new(0, mul(quantity, o.price), 0) ELSE new(quantity, 0, 0)

(* What an order locks is a sheet: the funds, and the maker fee.            *)
LEMMA LockedSheet ==
    ASSUME NEW o, o.deep_price \in OrderDeepPrice, o.is_bid \in BOOLEAN, o.price \in Nat,
           NEW a \in Nat, NEW rate \in Nat
    PROVE  /\ Funds(o, a) \in BalanceSheets
           /\ LockedFor(o, a, rate) \in BalanceSheets
           /\ \A x \in Assets :
                 /\ LockedFor(o, a, rate)[x] =
                      Funds(o, a)[x] + FeeOf(o, a, mul(a, o.price), rate)[x]
                 /\ LockedFor(o, a, rate)[x] \in Nat
<1> DEFINE q == mul(a, o.price)
<1>1. q \in Nat /\ 0 \in Nat
  BY MulBounds
<1>2. Funds(o, a) \in BalanceSheets
  BY <1>1, NewSheet DEF Funds
<1>3. LockedFor(o, a, rate) = add_balances(Funds(o, a), FeeOf(o, a, q, rate))
  BY DEF LockedFor, Funds
<1>4. FeeOf(o, a, q, rate) \in BalanceSheets
  BY <1>1, FeeSheet
<1> HIDE DEF q
<1>5. /\ LockedFor(o, a, rate) \in BalanceSheets
      /\ \A x \in Assets : LockedFor(o, a, rate)[x] = Funds(o, a)[x] + FeeOf(o, a, q, rate)[x]
  BY <1>2, <1>3, <1>4, AddSheets
<1> QED BY <1>2, <1>5 DEF q, BalanceSheets

(* An order of quantity c locks enough for two parts of it                  *)
(* (locked_balance, calculate_cancel_refund and the fee of a fill).         *)
LEMMA LockedParts ==
    ASSUME NEW o, o.deep_price \in OrderDeepPrice, o.is_bid \in BOOLEAN, o.price \in Nat,
           NEW rate \in Nat, NEW a \in Nat, NEW b \in Nat, NEW c \in Nat, a + b = c,
           NEW x \in Assets
    PROVE  LockedFor(o, a, rate)[x] + LockedFor(o, b, rate)[x] <= LockedFor(o, c, rate)[x]
<1> DEFINE q == mul(a, o.price)
           r == mul(b, o.price)
           s == mul(c, o.price)
           A == FeeOf(o, a, q, rate)[x]
           B == FeeOf(o, b, r, rate)[x]
           C == FeeOf(o, c, s, rate)[x]
<1>0. a + b <= c
  OBVIOUS
<1>1. q \in Nat /\ r \in Nat /\ s \in Nat /\ q + r <= s
  BY <1>0, MulBounds, MulParts
<1>2. A \in Nat /\ B \in Nat /\ C \in Nat
  BY <1>1, FeeSheet
<1>3. A + B <= C
  <2> HIDE DEF q, r, s
  <2> QED BY <1>0, <1>1, FeeParts
<1>4. Funds(o, a)[x] + Funds(o, b)[x] <= Funds(o, c)[x]
  <2>1. /\ Funds(o, a) = IF o.is_bid THEN new(0, q, 0) ELSE new(a, 0, 0)
        /\ Funds(o, b) = IF o.is_bid THEN new(0, r, 0) ELSE new(b, 0, 0)
        /\ Funds(o, c) = IF o.is_bid THEN new(0, s, 0) ELSE new(c, 0, 0)
    BY DEF Funds
  <2> HIDE DEF q, r, s
  <2> QED BY <1>1, <2>1 DEF new, Assets
<1>5. Funds(o, a)[x] \in Nat /\ Funds(o, b)[x] \in Nat /\ Funds(o, c)[x] \in Nat
  <2>1. Funds(o, a) \in BalanceSheets /\ Funds(o, b) \in BalanceSheets
        /\ Funds(o, c) \in BalanceSheets
    BY LockedSheet
  <2> QED BY <2>1 DEF BalanceSheets
<1>6. /\ LockedFor(o, a, rate)[x] = Funds(o, a)[x] + A
      /\ LockedFor(o, b, rate)[x] = Funds(o, b)[x] + B
      /\ LockedFor(o, c, rate)[x] = Funds(o, c)[x] + C
  BY LockedSheet
<1> HIDE DEF A, B, C
<1> QED BY <1>2, <1>3, <1>4, <1>5, <1>6

-----------------------------------------------------------------------------
(* The order in which a side is scanned. *)

(* The orders of a book, and how their IDs follow their arrival.            *)
BookOK(b) ==
    /\ b \in [DOMAIN b -> Order] /\ DOMAIN b \subseteq 1..MaxOrders
    /\ \A k \in DOMAIN b : /\ b[k].filled < b[k].quantity
                           /\ b[k].price <= MaxPrice /\ b[k].seq <= MaxOrders + 1
    /\ \A j, k \in DOMAIN b :
          b[j].is_bid = b[k].is_bid /\ j < k =>
             IF b[k].is_bid THEN b[k].seq < b[j].seq ELSE b[j].seq < b[k].seq

(* The fields of a resting order.                                           *)
LEMMA OrderFields ==
    ASSUME NEW o \in Order
    PROVE  /\ o.owner \in Users /\ o.is_bid \in BOOLEAN /\ o.price \in Nat /\ o.seq \in Nat
           /\ o.quantity \in Nat /\ o.filled \in Nat /\ o.deep_price \in OrderDeepPrice
           /\ o.epoch \in Nat /\ o.expire \in Nat
BY DEF Order

(* A set of numbers below a bound has a largest one.                        *)
LEMMA LargestElement ==
    ASSUME NEW T, T # {}, NEW bound \in Nat, \A x \in T : x \in Nat /\ x <= bound
    PROVE  \E x \in T : \A y \in T : ~ (x < y)
<1> DEFINE U == {bound - x : x \in T}
<1>1. U \subseteq Nat /\ U # {}
  OBVIOUS
<1>2. PICK u \in U : \A v \in U : ~ (v < u)
  BY <1>1, LeastElement
<1>3. PICK x \in T : u = bound - x
  OBVIOUS
<1>4. ASSUME NEW y \in T
      PROVE  ~ (x < y)
  <2>1. ~ (bound - y < bound - x)
    BY <1>2, <1>3
  <2> QED BY <2>1
<1> QED BY <1>4

(* A set of orders of one side has a first one: no two have the same order  *)
(* ID (encode_order_id, min_slice and max_slice).                           *)
LEMMA FirstExists ==
    ASSUME NEW b, BookOK(b), NEW A, A # {}, A \subseteq DOMAIN b, NEW is_bid \in BOOLEAN,
           \A k \in A : b[k].is_bid = is_bid
    PROVE  /\ First(b, A) \in A
           /\ \A j \in A \ {First(b, A)} : Ahead(b[First(b, A)], b[j])
<1>1. /\ MaxPrice \in Nat /\ MaxOrders \in Nat /\ MaxOrders + 1 \in Nat
  BY PoolAssumption
<1>2. \A k \in A : /\ b[k].price \in Nat /\ b[k].price <= MaxPrice
                   /\ b[k].seq \in Nat /\ b[k].seq <= MaxOrders + 1 /\ k \in Nat
  <2> TAKE k \in A
  <2>1. b[k] \in Order /\ k \in 1..MaxOrders
    BY DEF BookOK
  <2> QED BY <1>1, <2>1, OrderFields DEF BookOK
<1>3. \A j, k \in A : j # k => b[j].seq # b[k].seq
  <2> SUFFICES ASSUME NEW j \in A, NEW k \in A, j # k
               PROVE  b[j].seq # b[k].seq
    OBVIOUS
  <2>1. CASE j < k
    BY <1>2, <2>1 DEF BookOK
  <2>2. CASE k < j
    BY <1>2, <2>2 DEF BookOK
  <2> QED BY <1>2, <2>1, <2>2
<1>4. \E k \in A : \A j \in A \ {k} : Ahead(b[k], b[j])
  <2>1. CASE is_bid
    <3> DEFINE P == {b[k].price : k \in A}
    <3>0. P # {} /\ \A x \in P : x \in Nat /\ x <= MaxPrice
      BY <1>2
    <3>1. PICK p \in P : \A y \in P : ~ (p < y)
      BY <1>1, <3>0, LargestElement
    <3> DEFINE S == {b[k].seq : k \in {i \in A : b[i].price = p}}
    <3>2. S # {} /\ \A x \in S : x \in Nat /\ x <= MaxOrders + 1
      BY <1>2
    <3>3. PICK s \in S : \A y \in S : ~ (s < y)
      BY <1>1, <3>2, LargestElement
    <3>4. PICK k \in A : b[k].price = p /\ b[k].seq = s
      BY <3>3
    <3>5. ASSUME NEW j \in A \ {k}
          PROVE  SmallerId(b[j], b[k])
      <4>1. ~ (b[k].price < b[j].price) /\ b[j].price \in Nat /\ b[k].price \in Nat
        BY <1>2, <3>1, <3>4
      <4>2. CASE b[j].price = b[k].price
        <5>1. ~ (b[k].seq < b[j].seq) /\ b[j].seq # b[k].seq
          BY <1>3, <3>3, <3>4, <4>2
        <5>2. b[j].seq \in Nat /\ b[k].seq \in Nat
          BY <1>2
        <5> QED BY <4>2, <5>1, <5>2 DEF SmallerId
      <4>3. CASE b[j].price # b[k].price
        BY <4>1, <4>3 DEF SmallerId
      <4> QED BY <4>2, <4>3
    <3> QED BY <2>1, <3>4, <3>5 DEF Ahead
  <2>2. CASE ~ is_bid
    <3> DEFINE P == {b[k].price : k \in A}
    <3>1. P \subseteq Nat /\ P # {}
      BY <1>2
    <3>2. PICK p \in P : \A y \in P : ~ (y < p)
      BY <3>1, LeastElement
    <3> DEFINE S == {b[k].seq : k \in {i \in A : b[i].price = p}}
    <3>3. S # {} /\ S \subseteq Nat
      BY <1>2
    <3>4. PICK s \in S : \A y \in S : ~ (y < s)
      BY <3>3, LeastElement
    <3>5. PICK k \in A : b[k].price = p /\ b[k].seq = s
      BY <3>4
    <3>6. ASSUME NEW j \in A \ {k}
          PROVE  SmallerId(b[k], b[j])
      <4>1. ~ (b[j].price < b[k].price) /\ b[j].price \in Nat /\ b[k].price \in Nat
        BY <1>2, <3>2, <3>5
      <4>2. CASE b[j].price = b[k].price
        <5>1. ~ (b[j].seq < b[k].seq) /\ b[j].seq # b[k].seq
          BY <1>3, <3>4, <3>5, <4>2
        <5>2. b[j].seq \in Nat /\ b[k].seq \in Nat
          BY <1>2
        <5> QED BY <4>2, <5>1, <5>2 DEF SmallerId
      <4>3. CASE b[j].price # b[k].price
        BY <4>1, <4>3 DEF SmallerId
      <4> QED BY <4>2, <4>3
    <3> QED BY <2>2, <3>5, <3>6 DEF Ahead
  <2> QED BY <2>1, <2>2
<1> QED BY <1>4 DEF First

-----------------------------------------------------------------------------
(* The loop of match_against_book. *)

IsMatch(g, b, t, ts, n) ==
    g = [i \in 0..n |-> IF i = 0 THEN StartOfMatch(b, t.is_bid)
                                 ELSE match_maker(t, ts, g[i - 1])]

(* A function that satisfies the equation of the loop exists.               *)
LEMMA MatchExists ==
    ASSUME NEW b, NEW t, NEW ts, NEW n \in Nat
    PROVE  \E g : IsMatch(g, b, t, ts, n)
<1> DEFINE T == {m \in Nat : ~ \E g : IsMatch(g, b, t, ts, m)}
<1>1. SUFFICES ASSUME T # {} PROVE FALSE
  OBVIOUS
<1>2. PICK m \in T : \A y \in T : ~ (y < m)
  BY <1>1, LeastElement
<1>3. CASE m = 0
  <2> DEFINE g == [i \in 0..0 |-> StartOfMatch(b, t.is_bid)]
  <2>1. IsMatch(g, b, t, ts, 0)
    BY DEF IsMatch
  <2> QED BY <1>3, <2>1
<1>4. CASE m # 0
  <2>1. m - 1 \in Nat /\ m \in Nat /\ ~ (m - 1 \in T)
    BY <1>2, <1>4
  <2>2. PICK g : IsMatch(g, b, t, ts, m - 1)
    BY <2>1
  <2> DEFINE h == [i \in 0..m |-> IF i = m THEN match_maker(t, ts, g[m - 1]) ELSE g[i]]
  <2>3. ASSUME NEW i \in 0..m
        PROVE  h[i] = IF i = 0 THEN StartOfMatch(b, t.is_bid)
                               ELSE match_maker(t, ts, h[i - 1])
    BY <1>4, <2>1, <2>2 DEF IsMatch
  <2>4. IsMatch(h, b, t, ts, m)
    BY <2>3 DEF IsMatch
  <2> QED BY <2>4
<1>5. QED BY <1>3, <1>4

(* The result is the last of the states of the loop.                        *)
LEMMA MatchUnfold ==
    ASSUME NEW b, NEW t, NEW ts
    PROVE  \E g : /\ match_against_book(b, t, ts) = g[MaxFills]
                  /\ g[0] = StartOfMatch(b, t.is_bid)
                  /\ \A i \in 1..MaxFills : g[i] = match_maker(t, ts, g[i - 1])
<1>1. MaxFills \in Nat
  BY BookAssumption
<1>2. \E g : IsMatch(g, b, t, ts, MaxFills)
  BY <1>1, MatchExists
<1> DEFINE L == CHOOSE g : IsMatch(g, b, t, ts, MaxFills)
<1>3. IsMatch(L, b, t, ts, MaxFills)
  BY <1>2
<1>4. match_against_book(b, t, ts) = L[MaxFills]
  BY DEF match_against_book, IsMatch
<1> HIDE DEF L
<1>5. L[0] = StartOfMatch(b, t.is_bid)
      /\ \A i \in 1..MaxFills : L[i] = match_maker(t, ts, L[i - 1])
  BY <1>1, <1>3 DEF IsMatch
<1> QED BY <1>4, <1>5

(* The orders the scan has passed.                                          *)
Opposite(b, t) == Side(b, ~ t.is_bid)

Passed(b, t, m) == Opposite(b, t) \ m.ahead

(* The taker, before it is matched.                                         *)
TakerOK(t) ==
    /\ t.owner \in Users /\ t.is_bid \in BOOLEAN /\ t.price \in Nat /\ t.quantity \in Nat
    /\ t.deep_price \in OrderDeepPrice

(* What a book b has become in a state m of the loop: orders that were not  *)
(* reached are as they were; orders that were passed are gone, except the   *)
(* last one when it was larger than what the taker wanted.                  *)
BookMatched(b, t, m) ==
    /\ m.ahead \subseteq Opposite(b, t)
    /\ m.book \in [DOMAIN m.book -> Order] /\ DOMAIN m.book \subseteq DOMAIN b
    /\ \A k \in DOMAIN m.book :
          /\ m.book[k] = [b[k] EXCEPT !.filled = m.book[k].filled]
          /\ b[k].filled <= m.book[k].filled /\ m.book[k].filled < b[k].quantity
    /\ \A k \in DOMAIN b \ Passed(b, t, m) : k \in DOMAIN m.book /\ m.book[k] = b[k]
    /\ m.executed < t.quantity => \A k \in Passed(b, t, m) : k \notin DOMAIN m.book

(* The scan goes by priority.                                               *)
InPriority(b, t, m) ==
    /\ \A k \in Passed(b, t, m), j \in m.ahead : Ahead(b[k], b[j])
    /\ \A j, k \in Passed(b, t, m) : Ahead(b[j], b[k]) => j \notin DOMAIN m.book

Fill == [arrival : Nat, maker : Order, expired : BOOLEAN, completed : BOOLEAN,
         base : Nat, quote : Nat]

Gone(fill) == fill.expired \/ fill.completed

(* The fills are those of the orders that were passed.                      *)
FillsMatched(b, m) ==
    /\ m.fills \in Seq(Fill)
    /\ \A i \in 1..Len(m.fills) :
          /\ m.fills[i].arrival \in DOMAIN b /\ m.fills[i].maker = b[m.fills[i].arrival]
          /\ Gone(m.fills[i]) => m.fills[i].arrival \notin DOMAIN m.book
    /\ \A k \in DOMAIN b \ DOMAIN m.book :
          \E i \in 1..Len(m.fills) : Gone(m.fills[i]) /\ m.fills[i].arrival = k

Matched(b, t, m) ==
    /\ m.executed \in Nat /\ m.executed <= t.quantity /\ m.quote \in Nat
    /\ BookMatched(b, t, m) /\ InPriority(b, t, m) /\ FillsMatched(b, m)

(* A book in the middle of a match is a book.                               *)
LEMMA MatchedBook ==
    ASSUME NEW b, BookOK(b), NEW t, NEW m, BookMatched(b, t, m)
    PROVE  BookOK(m.book)
<1>1. ASSUME NEW k \in DOMAIN m.book
      PROVE  /\ k \in DOMAIN b /\ m.book[k] \in Order /\ b[k] \in Order
             /\ m.book[k].filled < m.book[k].quantity
             /\ m.book[k].price = b[k].price /\ m.book[k].seq = b[k].seq
             /\ m.book[k].is_bid = b[k].is_bid
  <2>1. /\ k \in DOMAIN b /\ m.book[k] \in Order
        /\ m.book[k] = [b[k] EXCEPT !.filled = m.book[k].filled]
        /\ m.book[k].filled < b[k].quantity
    BY DEF BookMatched
  <2>2. b[k] \in Order
    BY <2>1 DEF BookOK
  <2> QED BY <2>1, <2>2 DEF Order
<1>2. DOMAIN m.book \subseteq 1..MaxOrders /\ m.book \in [DOMAIN m.book -> Order]
  BY DEF BookOK, BookMatched
<1>3. \A k \in DOMAIN m.book : m.book[k].price <= MaxPrice /\ m.book[k].seq <= MaxOrders + 1
  BY <1>1 DEF BookOK
<1>4. ASSUME NEW j \in DOMAIN m.book, NEW k \in DOMAIN m.book,
             m.book[j].is_bid = m.book[k].is_bid, j < k
      PROVE  IF m.book[k].is_bid THEN m.book[k].seq < m.book[j].seq
                                 ELSE m.book[j].seq < m.book[k].seq
  <2>1. /\ j \in DOMAIN b /\ k \in DOMAIN b /\ b[j].is_bid = b[k].is_bid
        /\ m.book[k].is_bid = b[k].is_bid
        /\ m.book[k].seq = b[k].seq /\ m.book[j].seq = b[j].seq
    BY <1>1, <1>4
  <2> QED BY <1>4, <2>1 DEF BookOK
<1> QED BY <1>1, <1>2, <1>3, <1>4 DEF BookOK

(* The order that a round meets, its fill, and what is known of them.       *)
Round(t, ts, m, k, fill) ==
    /\ can_match(t, m)
    /\ k = First(m.book, m.ahead)
    /\ fill = generate_fill(t, ts, k, m.book[k], t.quantity - m.executed)

RoundOK(b, t, m, k, fill) ==
    /\ k \in m.ahead /\ k \in DOMAIN b /\ k \in DOMAIN m.book /\ m.book[k] = b[k]
    /\ b[k] \in Order /\ b[k].is_bid = ~ t.is_bid /\ k \notin Passed(b, t, m)
    /\ \A j \in m.ahead \ {k} : Ahead(b[k], b[j])
    /\ remaining(b[k]) \in Nat /\ remaining(b[k]) > 0
    /\ fill \in Fill /\ fill.arrival = k /\ fill.maker = b[k]
    /\ fill.quote = mul(fill.base, b[k].price)
    /\ fill.expired => fill.base = remaining(b[k]) /\ ~ fill.completed
    /\ ~ fill.expired => /\ 0 < fill.base /\ fill.base <= remaining(b[k])
                         /\ m.executed + fill.base <= t.quantity
                         /\ fill.completed <=> fill.base = remaining(b[k])
    /\ ~ Gone(fill) => m.executed + fill.base = t.quantity
    /\ \A j \in Passed(b, t, m) : j \notin DOMAIN m.book

(* The code of match_maker and generate_fill, in those terms.               *)
LEMMA RoundFacts ==
    ASSUME NEW b, BookOK(b), NEW t, TakerOK(t), NEW ts, NEW m, Matched(b, t, m),
           NEW k, NEW fill, Round(t, ts, m, k, fill)
    PROVE  RoundOK(b, t, m, k, fill)
<1> DEFINE o == b[k]
           wanted == t.quantity - m.executed
<1>1. /\ m.ahead # {} /\ m.executed < t.quantity /\ m.executed \in Nat /\ t.quantity \in Nat
      /\ t.is_bid \in BOOLEAN
  BY DEF Round, can_match, Matched, TakerOK
<1>2. /\ m.ahead \subseteq Opposite(b, t)
      /\ \A j \in m.ahead : j \in DOMAIN m.book /\ m.book[j] = b[j]
      /\ \A j \in Passed(b, t, m) : j \notin DOMAIN m.book
  <2>1. BookMatched(b, t, m)
    BY DEF Matched
  <2>2. m.ahead \subseteq Opposite(b, t) /\ Opposite(b, t) \subseteq DOMAIN b
    BY <2>1 DEF BookMatched, Opposite, Side
  <2>3. \A j \in m.ahead : j \in DOMAIN b \ Passed(b, t, m)
    BY <2>2 DEF Passed
  <2> QED BY <1>1, <2>1, <2>2, <2>3 DEF BookMatched
<1>3. \A j \in m.ahead : j \in DOMAIN b /\ b[j].is_bid = ~ t.is_bid
  BY <1>2 DEF Opposite, Side
<1>4. BookOK(m.book)
  BY MatchedBook DEF Matched
<1>5. k \in m.ahead /\ \A j \in m.ahead \ {k} : Ahead(m.book[k], m.book[j])
  <2>1. m.ahead \subseteq DOMAIN m.book /\ (~ t.is_bid) \in BOOLEAN
        /\ \A j \in m.ahead : m.book[j].is_bid = ~ t.is_bid
    BY <1>1, <1>2, <1>3
  <2> QED BY <1>1, <1>4, <2>1, FirstExists DEF Round
<1>6. /\ k \in DOMAIN b /\ k \in DOMAIN m.book /\ m.book[k] = o /\ o \in Order
      /\ o.is_bid = ~ t.is_bid /\ k \notin Passed(b, t, m) /\ k \in Nat
      /\ \A j \in m.ahead \ {k} : Ahead(o, b[j])
      /\ o.filled < o.quantity
  BY <1>2, <1>3, <1>5 DEF Passed, BookOK
<1> HIDE DEF o
<1>7. remaining(o) \in Nat /\ remaining(o) > 0 /\ o.price \in Nat
  BY <1>6, OrderFields DEF remaining
<1>8. wanted \in Nat /\ wanted > 0 /\ m.executed + wanted = t.quantity
  BY <1>1
<1> DEFINE expired == \/ ts > o.expire
                      \/ t.self_matching = "cancel_maker" /\ o.owner = t.owner
           base == IF expired \/ remaining(o) < wanted THEN remaining(o) ELSE wanted
           completed == ~ expired /\ base = remaining(o)
<1>9. fill = [arrival |-> k, maker |-> o, expired |-> expired, completed |-> completed,
              base |-> base, quote |-> mul(base, o.price)]
  BY <1>6 DEF Round, generate_fill
<1>10. /\ base \in Nat /\ base <= remaining(o) /\ 0 < base
       /\ expired => base = remaining(o) /\ ~ completed
       /\ ~ expired => base <= wanted /\ (completed <=> base = remaining(o))
       /\ ~ expired /\ ~ completed => base = wanted
       /\ expired \in BOOLEAN /\ completed \in BOOLEAN
  <2> HIDE DEF wanted
  <2> QED BY <1>7, <1>8
<1>11. mul(base, o.price) \in Nat
  BY <1>7, <1>10, MulBounds
<1> HIDE DEF expired, base, completed, wanted
<1>12. /\ fill \in Fill /\ fill.arrival = k /\ fill.maker = o /\ fill.expired = expired
       /\ fill.completed = completed /\ fill.base = base /\ fill.quote = mul(base, o.price)
  BY <1>6, <1>9, <1>10, <1>11 DEF Fill
<1>13. ~ expired => m.executed + base <= t.quantity
  BY <1>1, <1>8, <1>10
<1>14. ~ expired /\ ~ completed => m.executed + base = t.quantity
  BY <1>8, <1>10
<1> HIDE DEF Fill
<1>15. o = b[k]
  BY DEF o
<1>16. /\ fill.expired => fill.base = remaining(o) /\ ~ fill.completed
       /\ ~ fill.expired => /\ 0 < fill.base /\ fill.base <= remaining(o)
                            /\ m.executed + fill.base <= t.quantity
                            /\ fill.completed <=> fill.base = remaining(o)
       /\ ~ Gone(fill) => m.executed + fill.base = t.quantity
       /\ fill.quote = mul(fill.base, o.price)
  BY <1>10, <1>12, <1>13, <1>14 DEF Gone
<1> QED BY <1>2, <1>5, <1>6, <1>7, <1>12, <1>15, <1>16 DEF RoundOK

(* Of two orders at most one is ahead of the other.                         *)
LEMMA AheadOneWay ==
    ASSUME NEW o \in Order, NEW p \in Order, o.is_bid = p.is_bid, Ahead(o, p)
    PROVE  ~ Ahead(p, o)
<1>1. o.price \in Nat /\ p.price \in Nat /\ o.seq \in Nat /\ p.seq \in Nat
  BY OrderFields
<1> QED BY <1>1 DEF Ahead, SmallerId

(* What a round leaves.                                                     *)
RoundDone(b, t, m, k, fill, n) ==
    /\ n.ahead = m.ahead \ {k} /\ n.fills = Append(m.fills, fill)
    /\ n.executed = IF fill.expired THEN m.executed ELSE m.executed + fill.base
    /\ n.quote = IF fill.expired THEN m.quote ELSE m.quote + fill.quote
    /\ Passed(b, t, n) = Passed(b, t, m) \cup {k}
    /\ DOMAIN n.book = IF Gone(fill) THEN DOMAIN m.book \ {k} ELSE DOMAIN m.book
    /\ \A j \in DOMAIN n.book \ {k} : n.book[j] = m.book[j]
    /\ ~ Gone(fill) => n.book[k] = [b[k] EXCEPT !.filled = b[k].filled + fill.base]
    /\ BookMatched(b, t, n)

(* The book after a round (match_against_book).                             *)
LEMMA RoundBook ==
    ASSUME NEW b, BookOK(b), NEW t, TakerOK(t), NEW ts, NEW m, Matched(b, t, m),
           NEW k, NEW fill, Round(t, ts, m, k, fill), NEW n, n = match_maker(t, ts, m)
    PROVE  RoundDone(b, t, m, k, fill, n)
<1> DEFINE o == b[k]
<1>0. /\ k \in m.ahead /\ k \in DOMAIN b /\ k \in DOMAIN m.book /\ m.book[k] = o
      /\ o \in Order /\ k \notin Passed(b, t, m)
      /\ remaining(o) \in Nat /\ fill \in Fill
      /\ ~ fill.expired => /\ 0 < fill.base /\ fill.base <= remaining(o)
                           /\ m.executed + fill.base <= t.quantity
                           /\ fill.completed <=> fill.base = remaining(o)
      /\ ~ Gone(fill) => m.executed + fill.base = t.quantity
      /\ \A j \in Passed(b, t, m) : j \notin DOMAIN m.book
  <2>1. RoundOK(b, t, m, k, fill)
    BY RoundFacts
  <2> QED BY <2>1 DEF RoundOK
<1>1. /\ k \in m.ahead /\ k \in DOMAIN b /\ k \in DOMAIN m.book /\ m.book[k] = o
      /\ o \in Order /\ k \notin Passed(b, t, m)
      /\ remaining(o) \in Nat
      /\ fill.base \in Nat
      /\ ~ fill.expired => /\ 0 < fill.base /\ fill.base <= remaining(o)
                           /\ m.executed + fill.base <= t.quantity
                           /\ fill.completed <=> fill.base = remaining(o)
      /\ ~ Gone(fill) => m.executed + fill.base = t.quantity
      /\ \A j \in Passed(b, t, m) : j \notin DOMAIN m.book
  BY <1>0 DEF Fill
<1>2. n = [book |-> IF fill.expired \/ fill.completed
                    THEN Without(m.book, k)
                    ELSE [m.book EXCEPT ![k].filled = m.book[k].filled + fill.base],
           ahead |-> m.ahead \ {k},
           executed |-> IF fill.expired THEN m.executed ELSE m.executed + fill.base,
           quote |-> IF fill.expired THEN m.quote ELSE m.quote + fill.quote,
           fills |-> Append(m.fills, fill),
           aborted |-> \/ m.aborted
                       \/ /\ t.self_matching = "cancel_taker"
                          /\ m.book[k].owner = t.owner]
  BY DEF match_maker, Round
<1>3. /\ n.ahead = m.ahead \ {k} /\ n.fills = Append(m.fills, fill)
      /\ n.executed = IF fill.expired THEN m.executed ELSE m.executed + fill.base
      /\ n.quote = IF fill.expired THEN m.quote ELSE m.quote + fill.quote
      /\ n.book = IF Gone(fill) THEN Without(m.book, k)
                  ELSE [m.book EXCEPT ![k].filled = m.book[k].filled + fill.base]
  BY <1>2 DEF Gone
<1>4. /\ m.ahead \subseteq Opposite(b, t) /\ m.book \in [DOMAIN m.book -> Order]
      /\ DOMAIN m.book \subseteq DOMAIN b
      /\ \A j \in DOMAIN m.book :
          /\ m.book[j] = [b[j] EXCEPT !.filled = m.book[j].filled]
          /\ b[j].filled <= m.book[j].filled /\ m.book[j].filled < b[j].quantity
      /\ \A j \in DOMAIN b \ Passed(b, t, m) : j \in DOMAIN m.book /\ m.book[j] = b[j]
      /\ m.executed \in Nat /\ t.quantity \in Nat
  BY DEF Matched, BookMatched, TakerOK
<1>5. Passed(b, t, n) = Passed(b, t, m) \cup {k}
  BY <1>1, <1>3, <1>4 DEF Passed
<1> DEFINE p == [o EXCEPT !.filled = o.filled + fill.base]
<1>6. /\ DOMAIN n.book = IF Gone(fill) THEN DOMAIN m.book \ {k} ELSE DOMAIN m.book
      /\ \A j \in DOMAIN n.book \ {k} : n.book[j] = m.book[j]
      /\ ~ Gone(fill) => n.book[k] = p
      /\ n.book = [j \in DOMAIN n.book |-> n.book[j]]
  <2>1. CASE Gone(fill)
    BY <1>3, <2>1 DEF Without
  <2>2. CASE ~ Gone(fill)
    <3>1. n.book = [m.book EXCEPT ![k] = [m.book[k] EXCEPT !.filled = m.book[k].filled + fill.base]]
      BY <1>3, <2>2
    <3>2. [m.book[k] EXCEPT !.filled = m.book[k].filled + fill.base] = p
      BY <1>1
    <3> HIDE DEF p
    <3>3. n.book = [m.book EXCEPT ![k] = p] /\ k \in DOMAIN m.book
      BY <1>1, <3>1, <3>2
    <3> QED BY <2>2, <3>3
  <2> QED BY <2>1, <2>2
<1>7. o.filled \in Nat /\ o.quantity \in Nat /\ remaining(o) = o.quantity - o.filled
  BY <1>1, OrderFields DEF remaining
<1>8. ASSUME ~ Gone(fill)
      PROVE  /\ p \in Order /\ p.filled = o.filled + fill.base /\ p.filled < o.quantity
             /\ o.filled <= p.filled
  <2>1. o.filled + fill.base \in Nat /\ o.filled + fill.base < o.quantity
    BY <1>1, <1>7, <1>8 DEF Gone
  <2> QED BY <1>1, <1>7, <2>1 DEF Order
<1>9. n.book \in [DOMAIN n.book -> Order]
  <2>1. \A j \in DOMAIN n.book : n.book[j] \in Order
    <3> TAKE j \in DOMAIN n.book
    <3>1. CASE j = k
      BY <1>6, <1>8, <3>1
    <3>2. CASE j # k
      <4>1. j \in DOMAIN m.book /\ n.book[j] = m.book[j]
        BY <1>6, <3>2
      <4> QED BY <1>4, <4>1
    <3> QED BY <3>1, <3>2
  <2> QED BY <1>6, <2>1
<1>10. ASSUME NEW j \in DOMAIN n.book
       PROVE  /\ n.book[j] = [b[j] EXCEPT !.filled = n.book[j].filled]
              /\ b[j].filled <= n.book[j].filled /\ n.book[j].filled < b[j].quantity
  <2>1. CASE j = k
    <3>1. ~ Gone(fill) /\ n.book[j] = p
      BY <1>6, <2>1
    <3>2. p.filled = o.filled + fill.base /\ p.filled < o.quantity /\ o.filled <= p.filled
      BY <1>8, <3>1
    <3> HIDE DEF p
    <3>3. p = [o EXCEPT !.filled = p.filled]
      BY <3>2 DEF p
    <3> QED BY <2>1, <3>1, <3>2, <3>3
  <2>2. CASE j # k
    <3>1. j \in DOMAIN m.book /\ n.book[j] = m.book[j]
      BY <1>6, <2>2
    <3> QED BY <1>4, <3>1
  <2> QED BY <2>1, <2>2
<1>11. ASSUME NEW j \in DOMAIN b \ Passed(b, t, n)
       PROVE  j \in DOMAIN n.book /\ n.book[j] = b[j]
  <2>1. j # k /\ j \in DOMAIN b \ Passed(b, t, m)
    BY <1>5
  <2>2. j \in DOMAIN m.book /\ m.book[j] = b[j]
    BY <1>4, <2>1
  <2> QED BY <1>6, <2>1, <2>2
<1>12. ASSUME n.executed < t.quantity, NEW j \in Passed(b, t, n)
       PROVE  j \notin DOMAIN n.book
  <2>1. Gone(fill)
    BY <1>1, <1>3, <1>4, <1>12 DEF Gone
  <2> QED BY <1>1, <1>5, <1>6, <2>1
<1>13. n.ahead \subseteq Opposite(b, t) /\ DOMAIN n.book \subseteq DOMAIN b
  BY <1>3, <1>4, <1>6
<1>14. BookMatched(b, t, n)
  BY <1>9, <1>10, <1>11, <1>12, <1>13 DEF BookMatched
<1> QED BY <1>3, <1>5, <1>6, <1>14 DEF RoundDone

(* Rounds follow priority (the order IDs that a scan goes through).         *)
LEMMA RoundPriority ==
    ASSUME NEW b, BookOK(b), NEW t, TakerOK(t), NEW ts, NEW m, Matched(b, t, m),
           NEW k, NEW fill, Round(t, ts, m, k, fill), NEW n, n = match_maker(t, ts, m)
    PROVE  InPriority(b, t, n)
<1>1. /\ n.ahead = m.ahead \ {k} /\ Passed(b, t, n) = Passed(b, t, m) \cup {k}
      /\ DOMAIN n.book \subseteq DOMAIN m.book
  <2>0. RoundDone(b, t, m, k, fill, n)
    BY RoundBook
  <2>1. DOMAIN n.book = IF Gone(fill) THEN DOMAIN m.book \ {k} ELSE DOMAIN m.book
    BY <2>0 DEF RoundDone
  <2>2. n.ahead = m.ahead \ {k} /\ Passed(b, t, n) = Passed(b, t, m) \cup {k}
    BY <2>0 DEF RoundDone
  <2> QED BY <2>1, <2>2
<1>2. RoundOK(b, t, m, k, fill)
  BY RoundFacts
<1>3. /\ k \in m.ahead /\ k \in DOMAIN b /\ b[k] \in Order /\ b[k].is_bid = ~ t.is_bid
      /\ \A j \in m.ahead \ {k} : Ahead(b[k], b[j])
      /\ \A j \in Passed(b, t, m) : j \notin DOMAIN m.book
  BY <1>2 DEF RoundOK
<1>4. \A q \in Passed(b, t, m), j \in m.ahead : Ahead(b[q], b[j])
  BY DEF Matched, InPriority
<1>5. \A q \in Passed(b, t, m) : q \in DOMAIN b /\ b[q] \in Order /\ b[q].is_bid = ~ t.is_bid
  BY DEF Passed, Opposite, Side, BookOK
<1>6. \A q \in Passed(b, t, n), j \in n.ahead : Ahead(b[q], b[j])
  BY <1>1, <1>3, <1>4
<1>7. ASSUME NEW i \in Passed(b, t, n), NEW j \in Passed(b, t, n), Ahead(b[i], b[j])
      PROVE  i \notin DOMAIN n.book
  <2>1. CASE i \in Passed(b, t, m)
    BY <1>1, <1>3, <2>1
  <2>2. CASE i = k /\ j = k
    BY <1>3, <1>7, <2>2, AheadOneWay
  <2>3. CASE i = k /\ j \in Passed(b, t, m)
    <3>1. Ahead(b[j], b[k])
      BY <1>3, <1>4, <2>3
    <3> QED BY <1>3, <1>5, <1>7, <2>3, <3>1, AheadOneWay
  <2> QED BY <1>1, <2>1, <2>2, <2>3
<1> QED BY <1>6, <1>7 DEF InPriority

(* Every order that leaves the book does so by a fill (process_fills).      *)
LEMMA RoundFills ==
    ASSUME NEW b, BookOK(b), NEW t, TakerOK(t), NEW ts, NEW m, Matched(b, t, m),
           NEW k, NEW fill, Round(t, ts, m, k, fill), NEW n, n = match_maker(t, ts, m)
    PROVE  FillsMatched(b, n)
<1>1. /\ n.fills = Append(m.fills, fill)
      /\ DOMAIN n.book = IF Gone(fill) THEN DOMAIN m.book \ {k} ELSE DOMAIN m.book
  <2>1. RoundDone(b, t, m, k, fill, n)
    BY RoundBook
  <2> QED BY <2>1 DEF RoundDone
<1>2. RoundOK(b, t, m, k, fill)
  BY RoundFacts
<1>3. fill \in Fill /\ fill.arrival = k /\ fill.maker = b[k] /\ k \in DOMAIN b
  BY <1>2 DEF RoundOK
<1>4. /\ m.fills \in Seq(Fill)
      /\ \A i \in 1..Len(m.fills) :
            /\ m.fills[i].arrival \in DOMAIN b /\ m.fills[i].maker = b[m.fills[i].arrival]
            /\ Gone(m.fills[i]) => m.fills[i].arrival \notin DOMAIN m.book
      /\ \A j \in DOMAIN b \ DOMAIN m.book :
            \E i \in 1..Len(m.fills) : Gone(m.fills[i]) /\ m.fills[i].arrival = j
  BY DEF Matched, FillsMatched
<1> DEFINE l == Len(m.fills)
<1>5. /\ n.fills \in Seq(Fill) /\ Len(n.fills) = l + 1 /\ n.fills[l + 1] = fill
      /\ \A i \in 1..l : n.fills[i] = m.fills[i] /\ i \in 1..(l + 1)
      /\ \A i \in 1..(l + 1) : i \in 1..l \/ i = l + 1
      /\ l + 1 \in 1..(l + 1)
  BY <1>1, <1>3, <1>4
<1> HIDE DEF l
<1>6. ASSUME NEW i \in 1..(l + 1)
      PROVE  /\ n.fills[i].arrival \in DOMAIN b /\ n.fills[i].maker = b[n.fills[i].arrival]
             /\ Gone(n.fills[i]) => n.fills[i].arrival \notin DOMAIN n.book
  <2>1. CASE i = l + 1
    BY <1>1, <1>3, <1>5, <2>1
  <2>2. CASE i \in 1..l
    BY <1>1, <1>4, <1>5, <2>2 DEF l
  <2> QED BY <1>5, <2>1, <2>2
<1>7. ASSUME NEW j \in DOMAIN b \ DOMAIN n.book
      PROVE  \E i \in 1..(l + 1) : Gone(n.fills[i]) /\ n.fills[i].arrival = j
  <2>1. CASE j \in DOMAIN m.book
    BY <1>1, <1>3, <1>5, <2>1
  <2>2. CASE j \notin DOMAIN m.book
    <3>1. PICK i \in 1..l : Gone(m.fills[i]) /\ m.fills[i].arrival = j
      BY <1>4, <2>2 DEF l
    <3> QED BY <1>5, <3>1
  <2> QED BY <2>1, <2>2
<1> QED BY <1>5, <1>6, <1>7 DEF FillsMatched

(* A round keeps all of it; a round that cannot match changes nothing.      *)
LEMMA RoundStep ==
    ASSUME NEW b, BookOK(b), NEW t, TakerOK(t), NEW ts, NEW m, Matched(b, t, m)
    PROVE  Matched(b, t, match_maker(t, ts, m))
<1> DEFINE n == match_maker(t, ts, m)
           k == First(m.book, m.ahead)
           fill == generate_fill(t, ts, k, m.book[k], t.quantity - m.executed)
<1>1. CASE ~ can_match(t, m)
  BY <1>1 DEF match_maker
<1>2. CASE can_match(t, m)
  <2>1. Round(t, ts, m, k, fill)
    BY <1>2 DEF Round
  <2> HIDE DEF n, k, fill
  <2>2. n = match_maker(t, ts, m)
    BY DEF n
  <2>3. RoundDone(b, t, m, k, fill, n) /\ InPriority(b, t, n) /\ FillsMatched(b, n)
    BY <2>1, <2>2, RoundBook, RoundPriority, RoundFills
  <2>4. /\ n.executed = IF fill.expired THEN m.executed ELSE m.executed + fill.base
        /\ n.quote = IF fill.expired THEN m.quote ELSE m.quote + fill.quote
        /\ BookMatched(b, t, n)
    BY <2>3 DEF RoundDone
  <2>5. RoundOK(b, t, m, k, fill)
    BY <2>1, RoundFacts
  <2>6. /\ fill.base \in Nat /\ fill.quote \in Nat
        /\ ~ fill.expired => m.executed + fill.base <= t.quantity
    BY <2>5 DEF RoundOK, Fill
  <2>7. m.executed \in Nat /\ m.executed <= t.quantity /\ m.quote \in Nat
    BY DEF Matched
  <2>8. n.executed \in Nat /\ n.executed <= t.quantity /\ n.quote \in Nat
    BY <2>4, <2>6, <2>7
  <2> QED BY <2>2, <2>3, <2>4, <2>8 DEF Matched
<1> QED BY <1>1, <1>2

(* Before the first round.                                                  *)
LEMMA MatchStart ==
    ASSUME NEW b, BookOK(b), NEW t, TakerOK(t)
    PROVE  Matched(b, t, StartOfMatch(b, t.is_bid))
<1> DEFINE m == StartOfMatch(b, t.is_bid)
<1>1. /\ m.book = b /\ m.ahead = Opposite(b, t) /\ m.executed = 0 /\ m.quote = 0
      /\ m.fills = <<>>
  BY DEF StartOfMatch, Opposite
<1> HIDE DEF m
<1>2. Passed(b, t, m) = {}
  BY <1>1 DEF Passed
<1>3. m.executed \in Nat /\ m.executed <= t.quantity /\ m.quote \in Nat
  BY <1>1 DEF TakerOK
<1>4. BookMatched(b, t, m)
  <2>1. ASSUME NEW k \in DOMAIN b
        PROVE  /\ b[k] = [b[k] EXCEPT !.filled = b[k].filled]
               /\ b[k].filled <= b[k].filled /\ b[k].filled < b[k].quantity
    <3>1. b[k] \in Order /\ b[k].filled < b[k].quantity
      BY DEF BookOK
    <3> QED BY <3>1 DEF Order
  <2>2. b \in [DOMAIN b -> Order]
    BY DEF BookOK
  <2> QED BY <1>1, <1>2, <2>1, <2>2 DEF BookMatched
<1>5. InPriority(b, t, m)
  BY <1>2 DEF InPriority
<1>6. FillsMatched(b, m)
  <2>1. m.fills \in Seq(Fill) /\ Len(m.fills) = 0
    BY <1>1
  <2> QED BY <1>1, <2>1 DEF FillsMatched
<1> QED BY <1>3, <1>4, <1>5, <1>6 DEF Matched, m

(* The whole loop, and why it ended: MAX_FILLS rounds, or nothing to match. *)
LEMMA MatchResult ==
    ASSUME NEW b, BookOK(b), NEW t, TakerOK(t), NEW ts
    PROVE  LET m == match_against_book(b, t, ts)
           IN  /\ Matched(b, t, m)
               /\ Len(m.fills) < MaxFills => ~ can_match(t, m)
<1>1. PICK g : /\ match_against_book(b, t, ts) = g[MaxFills]
               /\ g[0] = StartOfMatch(b, t.is_bid)
               /\ \A i \in 1..MaxFills : g[i] = match_maker(t, ts, g[i - 1])
  BY MatchUnfold
<1> DEFINE Good(i) == /\ Matched(b, t, g[i])
                      /\ Len(g[i].fills) >= i \/ ~ can_match(t, g[i])
           T == {i \in 0..MaxFills : ~ Good(i)}
<1>2. MaxFills \in Nat
  BY BookAssumption
<1>3. T = {}
  <2> SUFFICES ASSUME T # {} PROVE FALSE
    OBVIOUS
  <2>1. PICK i \in T : \A y \in T : ~ (y < i)
    BY <1>2, LeastIndex
  <2>2. CASE i = 0
    <3>1. Matched(b, t, g[0])
      BY <1>1, MatchStart
    <3>2. Len(g[0].fills) >= 0
      BY <1>1 DEF StartOfMatch
    <3> QED BY <2>1, <2>2, <3>1, <3>2
  <2>3. CASE i # 0
    <3> DEFINE m == g[i - 1]
               n == g[i]
               k == First(m.book, m.ahead)
               fill == generate_fill(t, ts, k, m.book[k], t.quantity - m.executed)
    <3>1. i - 1 \in 0..MaxFills /\ i - 1 \notin T /\ i \in 1..MaxFills
      BY <1>2, <2>1, <2>3
    <3>2. Matched(b, t, m) /\ (Len(m.fills) >= i - 1 \/ ~ can_match(t, m))
      BY <3>1
    <3>3. n = match_maker(t, ts, m)
      BY <1>1, <3>1
    <3>4. ~ Good(i)
      BY <2>1
    <3>5. Good(i) <=> (Matched(b, t, n) /\ (Len(n.fills) >= i \/ ~ can_match(t, n)))
      OBVIOUS
    <3> HIDE DEF m, n, T, Good
    <3>6. Matched(b, t, n)
      BY <3>2, <3>3, RoundStep
    <3>7. CASE ~ can_match(t, m)
      <4>1. n = m
        BY <3>3, <3>7 DEF match_maker
      <4> QED BY <3>4, <3>5, <3>6, <3>7, <4>1
    <3>8. CASE can_match(t, m)
      <4>1. Round(t, ts, m, k, fill)
        BY <3>8 DEF Round
      <4> HIDE DEF k, fill
      <4>2. n.fills = Append(m.fills, fill)
        <5>1. RoundDone(b, t, m, k, fill, n)
          BY <3>2, <3>3, <4>1, RoundBook
        <5> QED BY <5>1 DEF RoundDone
      <4>3. RoundOK(b, t, m, k, fill)
        BY <3>2, <4>1, RoundFacts
      <4>4. m.fills \in Seq(Fill) /\ fill \in Fill
        BY <3>2, <4>3 DEF Matched, FillsMatched, RoundOK
      <4>5. Len(n.fills) = Len(m.fills) + 1 /\ Len(m.fills) \in Nat
        BY <4>2, <4>4
      <4>6. Len(n.fills) >= i
        BY <3>1, <3>2, <3>8, <4>5
      <4> QED BY <3>4, <3>5, <3>6, <4>6
    <3> QED BY <3>7, <3>8
  <2> QED BY <2>2, <2>3
<1>4. Good(MaxFills)
  BY <1>2, <1>3
<1>5. Len(g[MaxFills].fills) \in Nat
  BY <1>4 DEF Matched, FillsMatched
<1> QED BY <1>1, <1>2, <1>4, <1>5

-----------------------------------------------------------------------------
(* The money of a match: what resting orders no longer lock pays for what   *)
(* their owners and the taker get. *)

RatesOK(b, h) == \A k \in DOMAIN b : historic_maker_fee(h, b[k].epoch) \in Nat

Locks(b, h, x) ==
    [k \in 1..MaxOrders |->
        IF k \in DOMAIN b
        THEN locked_balance(b[k], historic_maker_fee(h, b[k].epoch))[x]
        ELSE 0]

LockedIn(b, h, x) == Total(Locks(b, h, x), MaxOrders)

(* What process_fills does with a fill: the maker gets its proceeds or its  *)
(* funds, and the fee is collected or given back.                           *)
Value(h, fill, x) ==
    get_settled_maker_quantities(fill)[x]
      + FeeOf(fill.maker, fill.base, fill.quote,
              historic_maker_fee(h, fill.maker.epoch))[x]

Values(h, fills, x) == [i \in 1..Len(fills) |-> Value(h, fills[i], x)]

PaidOut(h, fills, x) == Total(Values(h, fills, x), Len(fills))

TakerPays(t, m) == IF t.is_bid THEN new(0, m.quote, 0) ELSE new(m.executed, 0, 0)

Balanced(b, h, t, m, x) ==
    LockedIn(m.book, h, x) + PaidOut(h, m.fills, x) + TakerGets(t, m)[x]
      <= LockedIn(b, h, x) + TakerPays(t, m)[x]

(* The locks of a book.                                                     *)
LEMMA LocksFacts ==
    ASSUME NEW b, BookOK(b), NEW h, RatesOK(b, h), NEW x \in Assets
    PROVE  /\ \A k \in 1..MaxOrders : Locks(b, h, x)[k] \in Nat
           /\ LockedIn(b, h, x) \in Nat
<1>1. MaxOrders \in Nat
  BY PoolAssumption
<1>2. ASSUME NEW k \in 1..MaxOrders
      PROVE  Locks(b, h, x)[k] \in Nat
  <2>1. CASE k \in DOMAIN b
    <3>1. b[k] \in Order /\ b[k].filled < b[k].quantity
          /\ historic_maker_fee(h, b[k].epoch) \in Nat
      BY <2>1 DEF BookOK, RatesOK
    <3>2. remaining(b[k]) \in Nat
      BY <3>1, OrderFields DEF remaining
    <3>3. LockedFor(b[k], remaining(b[k]), historic_maker_fee(h, b[k].epoch))[x] \in Nat
      BY <3>1, <3>2, OrderFields, LockedSheet
    <3> QED BY <2>1, <3>3 DEF Locks, locked_balance
  <2>2. CASE k \notin DOMAIN b
    BY <2>2 DEF Locks
  <2> QED BY <2>1, <2>2
<1>3. LockedIn(b, h, x) \in Nat
  <2> DEFINE f == Locks(b, h, x)
  <2>1. \A k \in 1..MaxOrders : f[k] \in Nat
    BY <1>2
  <2> HIDE DEF f
  <2>2. Total(f, MaxOrders) \in Nat
    BY <1>1, <2>1, TotalNat
  <2> QED BY <2>2 DEF f, LockedIn
<1> QED BY <1>2, <1>3

(* The part of an order that is filled is paid for by what it locked.       *)
LEMMA FillMoney ==
    ASSUME NEW o \in Order, NEW fill \in Fill, NEW rate \in Nat, NEW x \in Assets,
           fill.maker = o, fill.quote = mul(fill.base, o.price),
           remaining(o) \in Nat, fill.base <= remaining(o)
    PROVE  LET old == LockedFor(o, remaining(o), rate)[x]
               left == LockedFor(o, remaining(o) - fill.base, rate)[x]
               fee == FeeOf(o, fill.base, fill.quote, rate)[x]
               settled == get_settled_maker_quantities(fill)[x]
               other == IF o.is_bid THEN new(0, fill.quote, 0)[x] ELSE new(fill.base, 0, 0)[x]
               mine == IF o.is_bid THEN new(fill.base, 0, 0)[x] ELSE new(0, fill.quote, 0)[x]
           IN  /\ old \in Nat /\ left \in Nat /\ fee \in Nat /\ settled \in Nat
               /\ other \in Nat /\ mine \in Nat
               /\ fill.expired => settled = other
               /\ ~ fill.expired => settled = mine
               /\ other + fee + left <= old
<1> DEFINE a == fill.base
           q == fill.quote
           c == remaining(o) - fill.base
           old == LockedFor(o, remaining(o), rate)[x]
           part == LockedFor(o, a, rate)[x]
           left == LockedFor(o, c, rate)[x]
           fee == FeeOf(o, a, q, rate)[x]
           settled == get_settled_maker_quantities(fill)[x]
           other == IF o.is_bid THEN new(0, q, 0)[x] ELSE new(a, 0, 0)[x]
           mine == IF o.is_bid THEN new(a, 0, 0)[x] ELSE new(0, q, 0)[x]
<1>1. /\ o.deep_price \in OrderDeepPrice /\ o.is_bid \in BOOLEAN /\ o.price \in Nat
  BY OrderFields
<1>2. a \in Nat /\ q \in Nat /\ fill.expired \in BOOLEAN /\ c \in Nat /\ a + c = remaining(o)
  BY DEF Fill
<1>3. old \in Nat /\ part \in Nat /\ left \in Nat /\ part = Funds(o, a)[x] + fee
  BY <1>1, <1>2, LockedSheet
<1>4. fee \in Nat
  BY <1>1, <1>2, FeeSheet
<1>5. part + left <= old
  BY <1>1, <1>2, LockedParts
<1>6. Funds(o, a)[x] = other
  BY DEF Funds
<1>7. other \in Nat /\ mine \in Nat
  BY <1>2 DEF new, Assets
<1>8. /\ fill.expired => settled = other
      /\ ~ fill.expired => settled = mine
  BY <1>1, <1>2 DEF get_settled_maker_quantities
<1>9. settled \in Nat
  BY <1>2, <1>7, <1>8
<1> HIDE DEF old, part, left, fee, other, mine, settled
<1>10. other + fee + left <= old
  BY <1>3, <1>4, <1>5, <1>6, <1>7
<1> QED BY <1>3, <1>4, <1>7, <1>8, <1>9, <1>10 DEF old, left, fee, other, mine, settled, a, q, c

(* The values of fills.                                                     *)
LEMMA ValuesFacts ==
    ASSUME NEW b, BookOK(b), NEW h, RatesOK(b, h), NEW x \in Assets,
           NEW m, FillsMatched(b, m)
    PROVE  /\ \A i \in 1..Len(m.fills) : Values(h, m.fills, x)[i] \in Nat
           /\ PaidOut(h, m.fills, x) \in Nat /\ Len(m.fills) \in Nat
<1>1. Len(m.fills) \in Nat
  BY DEF FillsMatched
<1>2. ASSUME NEW i \in 1..Len(m.fills)
      PROVE  Values(h, m.fills, x)[i] \in Nat
  <2> DEFINE f == m.fills[i]
             rate == historic_maker_fee(h, f.maker.epoch)
  <2>1. f \in Fill /\ f.arrival \in DOMAIN b /\ f.maker = b[f.arrival]
    BY DEF FillsMatched
  <2>2. /\ f.maker \in Order /\ rate \in Nat /\ f.base \in Nat /\ f.quote \in Nat
    BY <2>1 DEF RatesOK, Fill
  <2>3. FeeOf(f.maker, f.base, f.quote, rate)[x] \in Nat
    BY <2>2, OrderFields, FeeSheet
  <2>4. get_settled_maker_quantities(f)[x] \in Nat
    <3> HIDE DEF f
    <3> QED BY <2>2 DEF get_settled_maker_quantities, new, Assets
  <2>5. Value(h, f, x) \in Nat
    BY <2>3, <2>4 DEF Value
  <2> QED BY <2>5 DEF Values
<1>3. PaidOut(h, m.fills, x) \in Nat
  <2> DEFINE f == Values(h, m.fills, x)
             l == Len(m.fills)
  <2>1. \A i \in 1..l : f[i] \in Nat
    BY <1>2
  <2> HIDE DEF f, l
  <2>2. Total(f, l) \in Nat
    BY <1>1, <2>1, TotalNat DEF l
  <2> QED BY <2>2 DEF f, l, PaidOut
<1> QED BY <1>1, <1>2, <1>3

(* The fee rates of orders that rest are still known.                       *)
LEMMA MatchedRates ==
    ASSUME NEW b, BookOK(b), NEW t, NEW m, BookMatched(b, t, m), NEW h, RatesOK(b, h)
    PROVE  RatesOK(m.book, h)
<1> SUFFICES ASSUME NEW k \in DOMAIN m.book
             PROVE  historic_maker_fee(h, m.book[k].epoch) \in Nat
  BY DEF RatesOK
<1>1. k \in DOMAIN b /\ m.book[k] = [b[k] EXCEPT !.filled = m.book[k].filled]
  BY DEF BookMatched
<1>2. b[k] \in Order
  BY <1>1 DEF BookOK
<1>3. m.book[k].epoch = b[k].epoch
  BY <1>1, <1>2 DEF Order
<1> QED BY <1>1, <1>3 DEF RatesOK

(* A round in which the locks of one order pay for its fill.                *)
LEMMA RoundMoney ==
    ASSUME NEW b, BookOK(b), NEW t, TakerOK(t), NEW ts, NEW m, Matched(b, t, m),
           NEW k, NEW fill, Round(t, ts, m, k, fill), NEW n, n = match_maker(t, ts, m),
           NEW h, RatesOK(b, h), NEW x \in Assets, Balanced(b, h, t, m, x)
    PROVE  Balanced(b, h, t, n, x)
<1> DEFINE o == b[k]
           rate == historic_maker_fee(h, o.epoch)
           old == LockedFor(o, remaining(o), rate)[x]
           left == LockedFor(o, remaining(o) - fill.base, rate)[x]
           fee == FeeOf(o, fill.base, fill.quote, rate)[x]
           settled == get_settled_maker_quantities(fill)[x]
           other == IF o.is_bid THEN new(0, fill.quote, 0)[x] ELSE new(fill.base, 0, 0)[x]
           mine == IF o.is_bid THEN new(fill.base, 0, 0)[x] ELSE new(0, fill.quote, 0)[x]
           f == Locks(m.book, h, x)
           g == Locks(n.book, h, x)
           l == Len(m.fills)
           u == Values(h, m.fills, x)
           v == Values(h, n.fills, x)
<1>1. RoundOK(b, t, m, k, fill) /\ RoundDone(b, t, m, k, fill, n) /\ FillsMatched(b, n)
  BY RoundFacts, RoundBook, RoundFills
<1>2. /\ k \in DOMAIN b /\ k \in DOMAIN m.book /\ m.book[k] = o /\ o \in Order
      /\ remaining(o) \in Nat /\ fill \in Fill /\ fill.maker = o
      /\ fill.quote = mul(fill.base, o.price) /\ o.is_bid = ~ t.is_bid
      /\ fill.base <= remaining(o) /\ k \in 1..MaxOrders /\ MaxOrders \in Nat
      /\ (Gone(fill) \/ ~ fill.expired)
  <2>1. RoundOK(b, t, m, k, fill)
    BY <1>1
  <2>2. fill.base <= remaining(o) /\ remaining(o) \in Nat
    BY <2>1 DEF RoundOK
  <2> QED BY <2>1, <2>2, PoolAssumption DEF RoundOK, BookOK, Gone
<1>3. rate \in Nat
  BY <1>2 DEF RatesOK
<1>4. /\ old \in Nat /\ left \in Nat /\ fee \in Nat /\ settled \in Nat
      /\ other \in Nat /\ mine \in Nat
      /\ fill.expired => settled = other
      /\ ~ fill.expired => settled = mine
      /\ other + fee + left <= old
  <2> HIDE DEF o, rate
  <2> QED BY <1>2, <1>3, FillMoney
<1>5. BookMatched(b, t, m) /\ BookMatched(b, t, n) /\ FillsMatched(b, m)
  BY <1>1 DEF Matched, RoundDone
<1>6. BookOK(m.book) /\ BookOK(n.book) /\ RatesOK(m.book, h) /\ RatesOK(n.book, h)
  BY <1>5, MatchedBook, MatchedRates
<1>7. \A j \in 1..MaxOrders : f[j] \in Nat /\ g[j] \in Nat
  BY <1>6, LocksFacts
<1>8. f[k] = old
  BY <1>2 DEF Locks, locked_balance
<1>9. g[k] \in Nat /\ g[k] <= left
  <2>1. CASE Gone(fill)
    <3>1. k \notin DOMAIN n.book
      BY <1>1, <2>1 DEF RoundDone
    <3>2. g[k] = 0
      BY <1>2, <3>1 DEF Locks
    <3> HIDE DEF g, left
    <3> QED BY <1>4, <3>2
  <2>2. CASE ~ Gone(fill)
    <3> DEFINE p == n.book[k]
    <3>1. k \in DOMAIN n.book /\ p = [o EXCEPT !.filled = o.filled + fill.base]
      BY <1>1, <1>2, <2>2 DEF RoundDone
    <3>2. /\ p.deep_price = o.deep_price /\ p.is_bid = o.is_bid /\ p.price = o.price
          /\ p.epoch = o.epoch /\ p.quantity = o.quantity /\ p.filled = o.filled + fill.base
      BY <1>2, <3>1 DEF Order
    <3>3. remaining(p) = remaining(o) - fill.base
      <4>1. o.quantity \in Nat /\ o.filled \in Nat /\ fill.base \in Nat
        BY <1>2, OrderFields DEF Fill
      <4> QED BY <3>2, <4>1 DEF remaining
    <3>4. g[k] = LockedFor(p, remaining(p), historic_maker_fee(h, p.epoch))[x]
      BY <1>2, <3>1 DEF Locks, locked_balance
    <3>5. LockedFor(p, remaining(p), historic_maker_fee(h, p.epoch))[x] = left
      BY <3>2, <3>3 DEF LockedFor, FeeOf
    <3> HIDE DEF g, left
    <3> QED BY <1>4, <3>4, <3>5
  <2> QED BY <2>1, <2>2
<1>10. ASSUME NEW j \in 1..MaxOrders, j # k
       PROVE  f[j] = g[j]
  <2>1. j \in DOMAIN n.book <=> j \in DOMAIN m.book
    BY <1>1, <1>10 DEF RoundDone
  <2>2. j \in DOMAIN n.book => n.book[j] = m.book[j]
    BY <1>1, <1>10 DEF RoundDone
  <2> QED BY <2>1, <2>2 DEF Locks
<1>11. Value(h, fill, x) = settled + fee
  BY <1>2 DEF Value
<1>12. /\ l \in Nat /\ Len(n.fills) = l + 1 /\ n.fills[l + 1] = fill
       /\ \A i \in 1..l : n.fills[i] = m.fills[i]
       /\ \A i \in 1..l : i \in 1..(l + 1)
       /\ l + 1 \in 1..(l + 1)
  <2>1. m.fills \in Seq(Fill) /\ n.fills = Append(m.fills, fill)
    BY <1>1, <1>5 DEF FillsMatched, RoundDone
  <2> QED BY <1>2, <2>1
<1>13. /\ \A i \in 1..(l + 1) : v[i] \in Nat
       /\ PaidOut(h, m.fills, x) \in Nat
  BY <1>1, <1>5, <1>12, ValuesFacts
<1>14. \A i \in 1..l : u[i] = v[i]
  BY <1>12 DEF Values
<1>15. v[l + 1] = settled + fee
  BY <1>11, <1>12 DEF Values
<1>16. /\ LockedIn(m.book, h, x) = Total(f, MaxOrders)
       /\ LockedIn(n.book, h, x) = Total(g, MaxOrders)
       /\ PaidOut(h, m.fills, x) = Total(u, l) /\ PaidOut(h, n.fills, x) = Total(v, l + 1)
  BY <1>12 DEF LockedIn, PaidOut
<1>17. LockedIn(m.book, h, x) \in Nat /\ LockedIn(b, h, x) \in Nat
  BY <1>6, LocksFacts
<1>18. /\ TakerGets(t, m)[x] \in Nat /\ TakerPays(t, m)[x] \in Nat
       /\ TakerGets(t, n)[x] = TakerGets(t, m)[x] + (IF fill.expired THEN 0 ELSE other)
       /\ TakerPays(t, n)[x] = TakerPays(t, m)[x] + (IF fill.expired THEN 0 ELSE mine)
  <2>1. /\ n.executed = IF fill.expired THEN m.executed ELSE m.executed + fill.base
        /\ n.quote = IF fill.expired THEN m.quote ELSE m.quote + fill.quote
    BY <1>1 DEF RoundDone
  <2>2. m.executed \in Nat /\ m.quote \in Nat /\ fill.base \in Nat /\ fill.quote \in Nat
        /\ t.is_bid \in BOOLEAN
    BY <1>2 DEF Matched, Fill, TakerOK
  <2>3. CASE t.is_bid
    <3>1. /\ other = new(fill.base, 0, 0)[x] /\ mine = new(0, fill.quote, 0)[x]
          /\ TakerGets(t, m) = new(m.executed, 0, 0) /\ TakerGets(t, n) = new(n.executed, 0, 0)
          /\ TakerPays(t, m) = new(0, m.quote, 0) /\ TakerPays(t, n) = new(0, n.quote, 0)
      BY <1>2, <2>3 DEF TakerGets, TakerPays
    <3> HIDE DEF other, mine
    <3> QED BY <2>1, <2>2, <3>1 DEF new, Assets
  <2>4. CASE ~ t.is_bid
    <3>1. /\ other = new(0, fill.quote, 0)[x] /\ mine = new(fill.base, 0, 0)[x]
          /\ TakerGets(t, m) = new(0, m.quote, 0) /\ TakerGets(t, n) = new(0, n.quote, 0)
          /\ TakerPays(t, m) = new(m.executed, 0, 0) /\ TakerPays(t, n) = new(n.executed, 0, 0)
      BY <1>2, <2>2, <2>4 DEF TakerGets, TakerPays
    <3> HIDE DEF other, mine
    <3> QED BY <2>1, <2>2, <3>1 DEF new, Assets
  <2> QED BY <2>3, <2>4
<1> HIDE DEF o, rate, old, left, fee, settled, other, mine, f, g, l, u, v
<1>19. Total(g, MaxOrders) = Total(f, MaxOrders) + g[k] - f[k]
  <2>1. OneChange(f, g, MaxOrders, k)
    BY <1>7, <1>10 DEF OneChange
  <2> QED BY <1>2, <2>1, TotalOneChange
<1>20. Total(v, l + 1) = Total(u, l) + v[l + 1]
  <2>1. \A i \in 1..(l + 1) : v[i] \in Int
    BY <1>13
  <2> QED BY <1>12, <1>14, <2>1, TotalExtend
<1> DEFINE lockedM == LockedIn(m.book, h, x)
           lockedN == LockedIn(n.book, h, x)
           paidM == PaidOut(h, m.fills, x)
           paidN == PaidOut(h, n.fills, x)
           getsM == TakerGets(t, m)[x]
           getsN == TakerGets(t, n)[x]
           paysM == TakerPays(t, m)[x]
           paysN == TakerPays(t, n)[x]
           all == LockedIn(b, h, x)
<1>21. lockedM + paidM + getsM <= all + paysM
  BY DEF Balanced
<1>22. /\ lockedN = lockedM + g[k] - old /\ paidN = paidM + (settled + fee)
       /\ lockedM \in Nat /\ all \in Nat /\ paidM \in Nat /\ getsM \in Nat /\ paysM \in Nat
       /\ getsN = getsM + (IF fill.expired THEN 0 ELSE other)
       /\ paysN = paysM + (IF fill.expired THEN 0 ELSE mine)
  BY <1>8, <1>13, <1>15, <1>16, <1>17, <1>18, <1>19, <1>20
<1> HIDE DEF lockedM, lockedN, paidM, paidN, getsM, getsN, paysM, paysN, all
<1>23. lockedN + paidN + getsN <= all + paysN
  <2>1. CASE fill.expired
    BY <1>4, <1>9, <1>21, <1>22, <2>1
  <2>2. CASE ~ fill.expired
    BY <1>4, <1>9, <1>21, <1>22, <2>2
  <2> QED BY <2>1, <2>2
<1> QED BY <1>23 DEF Balanced, lockedN, paidN, getsN, paysN, all

(* The whole match is paid for.                                             *)
LEMMA MatchMoney ==
    ASSUME NEW b, BookOK(b), NEW t, TakerOK(t), NEW ts, NEW h, RatesOK(b, h),
           NEW x \in Assets
    PROVE  Balanced(b, h, t, match_against_book(b, t, ts), x)
<1>1. PICK g : /\ match_against_book(b, t, ts) = g[MaxFills]
               /\ g[0] = StartOfMatch(b, t.is_bid)
               /\ \A i \in 1..MaxFills : g[i] = match_maker(t, ts, g[i - 1])
  BY MatchUnfold
<1> DEFINE Good(i) == Matched(b, t, g[i]) /\ Balanced(b, h, t, g[i], x)
           T == {i \in 0..MaxFills : ~ Good(i)}
<1>2. MaxFills \in Nat
  BY BookAssumption
<1>3. T = {}
  <2> SUFFICES ASSUME T # {} PROVE FALSE
    OBVIOUS
  <2>1. PICK i \in T : \A y \in T : ~ (y < i)
    BY <1>2, LeastIndex
  <2>2. CASE i = 0
    <3> DEFINE m == StartOfMatch(b, t.is_bid)
               v == Values(h, m.fills, x)
    <3>1. Matched(b, t, m)
      BY MatchStart
    <3>2. m.book = b /\ m.executed = 0 /\ m.quote = 0 /\ m.fills = <<>>
      BY DEF StartOfMatch
    <3>3. PaidOut(h, m.fills, x) = 0
      <4>1. Len(m.fills) = 0
        BY <3>2
      <4>2. \A j \in 1..0 : v[j] = 0
        OBVIOUS
      <4> HIDE DEF v
      <4>3. Total(v, 0) = 0
        BY <4>2, TotalZero
      <4> QED BY <4>1, <4>3 DEF PaidOut, v
    <3>4. TakerGets(t, m)[x] = 0 /\ TakerPays(t, m)[x] = 0
      BY <3>2 DEF TakerGets, TakerPays, new, Assets
    <3>5. LockedIn(b, h, x) \in Nat
      BY LocksFacts
    <3> HIDE DEF m
    <3>6. Balanced(b, h, t, m, x)
      BY <3>2, <3>3, <3>4, <3>5 DEF Balanced
    <3> QED BY <1>1, <2>1, <2>2, <3>1, <3>6 DEF m
  <2>3. CASE i # 0
    <3> DEFINE m == g[i - 1]
               n == g[i]
               k == First(m.book, m.ahead)
               fill == generate_fill(t, ts, k, m.book[k], t.quantity - m.executed)
    <3>1. i - 1 \in 0..MaxFills /\ i - 1 \notin T /\ i \in 1..MaxFills
      BY <1>2, <2>1, <2>3
    <3>2. Matched(b, t, m) /\ Balanced(b, h, t, m, x)
      BY <3>1
    <3>3. n = match_maker(t, ts, m)
      BY <1>1, <3>1
    <3>4. ~ (Matched(b, t, n) /\ Balanced(b, h, t, n, x))
      BY <2>1
    <3> HIDE DEF m, n, T, Good
    <3>5. Matched(b, t, n)
      BY <3>2, <3>3, RoundStep
    <3>6. CASE ~ can_match(t, m)
      <4>1. n = m
        BY <3>3, <3>6 DEF match_maker
      <4> QED BY <3>2, <3>4, <4>1
    <3>7. CASE can_match(t, m)
      <4>1. Round(t, ts, m, k, fill)
        BY <3>7 DEF Round
      <4> HIDE DEF k, fill
      <4>2. Balanced(b, h, t, n, x)
        BY <3>2, <3>3, <4>1, RoundMoney
      <4> QED BY <3>4, <3>5, <4>2
    <3> QED BY <3>6, <3>7
  <2> QED BY <2>2, <2>3
<1> QED BY <1>1, <1>2, <1>3

-----------------------------------------------------------------------------
(* The loop of process_fills. *)

AccountsOK(a) ==
    a \in [Users -> [open_orders : SUBSET (1..MaxOrders), settled : BalanceSheets]]

SettledOf(a, x) == [u \in Users |-> a[u].settled[x]]

SettledIn(a, x) == Total(SettledOf(a, x), N)

(* What process_fill makes of a fill: s before, n after.                    *)
FillEffect(h, s, fill, n) ==
    LET u == fill.maker.owner
    IN  /\ u \in Users /\ AccountsOK(n.accounts) /\ n.fees \in BalanceSheets
        /\ n.accounts[u].open_orders =
              s.accounts[u].open_orders \ (IF Gone(fill) THEN {fill.arrival} ELSE {})
        /\ \A v \in Users \ {u} : n.accounts[v] = s.accounts[v]
        /\ \A x \in Assets :
              n.accounts[u].settled[x] + n.fees[x]
                = s.accounts[u].settled[x] + s.fees[x] + Value(h, fill, x)
        /\ \A x \in Assets : s.fees[x] <= n.fees[x]

(* What an account looks like after its fill.                               *)
LEMMA FillAccount ==
    ASSUME NEW s, AccountsOK(s.accounts), s.fees \in BalanceSheets, NEW h,
           NEW fill \in Fill, historic_maker_fee(h, fill.maker.epoch) \in Nat,
           NEW n, n = process_fill(h, s, fill)
    PROVE  FillEffect(h, s, fill, n)
<1> DEFINE u    == fill.maker.owner
           rate == historic_maker_fee(h, fill.maker.epoch)
           fee  == FeeOf(fill.maker, fill.base, fill.quote, rate)
           out  == get_settled_maker_quantities(fill)
           paid == IF fill.expired THEN add_balances(out, fee) ELSE out
           gone == IF Gone(fill) THEN {fill.arrival} ELSE {}
           settled == add_balances(s.accounts[u].settled, paid)
           open == s.accounts[u].open_orders \ gone
<1>1. fill.maker \in Order /\ fill.base \in Nat /\ fill.quote \in Nat /\ fill.expired \in BOOLEAN
  BY DEF Fill
<1>2. u \in Users
  BY <1>1, OrderFields
<1>3. fee \in BalanceSheets
  BY <1>1, OrderFields, FeeSheet
<1>4. out \in BalanceSheets
  BY <1>1, NewSheet DEF get_settled_maker_quantities
<1>5. s.accounts[u].settled \in BalanceSheets /\ s.accounts[u].open_orders \subseteq 1..MaxOrders
      /\ s.accounts \in [Users -> [open_orders : SUBSET (1..MaxOrders), settled : BalanceSheets]]
  BY <1>2 DEF AccountsOK
<1>6. /\ n.accounts = [s.accounts EXCEPT ![u].settled = settled, ![u].open_orders = open]
      /\ n.fees = IF fill.expired THEN s.fees ELSE add_balances(s.fees, fee)
  BY DEF process_fill, Gone
<1>7. paid \in BalanceSheets
  BY <1>3, <1>4, AddSheets
<1>8. settled \in BalanceSheets /\ open \in SUBSET (1..MaxOrders) /\ n.fees \in BalanceSheets
  <2>1. settled \in BalanceSheets
    BY <1>5, <1>7, AddSheets
  <2>2. add_balances(s.fees, fee) \in BalanceSheets
    BY <1>3, AddSheets
  <2>3. open \in SUBSET (1..MaxOrders)
    BY <1>5
  <2> HIDE DEF settled, open, fee
  <2> QED BY <1>6, <2>1, <2>2, <2>3
<1>9. \A x \in Assets : Value(h, fill, x) = out[x] + fee[x]
  BY DEF Value
<1>10. \A x \in Assets : settled[x] + n.fees[x] = s.accounts[u].settled[x] + s.fees[x] + (out[x] + fee[x])
  <2> DEFINE old == s.accounts[u].settled
  <2> HIDE DEF fee, out, old
  <2> TAKE x \in Assets
  <2>1. old[x] \in Nat /\ fee[x] \in Nat /\ out[x] \in Nat /\ s.fees[x] \in Nat
    BY <1>3, <1>4, <1>5 DEF BalanceSheets, old
  <2>2. paid[x] = IF fill.expired THEN out[x] + fee[x] ELSE out[x]
    BY DEF add_balances
  <2>3. settled[x] = old[x] + paid[x]
    BY DEF add_balances, old
  <2>4. n.fees[x] = IF fill.expired THEN s.fees[x] ELSE s.fees[x] + fee[x]
    BY <1>6 DEF add_balances
  <2> HIDE DEF settled, paid
  <2>5. settled[x] + n.fees[x] = old[x] + s.fees[x] + (out[x] + fee[x])
    BY <1>1, <2>1, <2>2, <2>3, <2>4
  <2> QED BY <2>5 DEF old
<1>11. \A x \in Assets : s.fees[x] <= n.fees[x]
  <2> HIDE DEF fee
  <2> TAKE x \in Assets
  <2>1. fee[x] \in Nat /\ s.fees[x] \in Nat
    BY <1>3 DEF BalanceSheets
  <2>2. n.fees[x] = IF fill.expired THEN s.fees[x] ELSE s.fees[x] + fee[x]
    BY <1>6 DEF add_balances
  <2> QED BY <2>1, <2>2
<1> HIDE DEF settled, open, u, gone, fee, out, paid
<1>12. n.accounts = [s.accounts EXCEPT ![u] = [open_orders |-> open, settled |-> settled]]
  BY <1>2, <1>5, <1>6
<1>13. AccountsOK(n.accounts)
  BY <1>2, <1>5, <1>8, <1>12 DEF AccountsOK
<1>14. /\ n.accounts[u].open_orders = open /\ n.accounts[u].settled = settled
       /\ \A v \in Users \ {u} : n.accounts[v] = s.accounts[v]
  BY <1>2, <1>5, <1>12
<1> QED BY <1>2, <1>8, <1>9, <1>10, <1>11, <1>13, <1>14 DEF FillEffect, open, gone, u

IsProcess(g, h, z, fills, n) ==
    g = [i \in 0..n |-> IF i = 0 THEN z
                                 ELSE process_fill(h, g[i - 1], fills[i])]

(* A function that satisfies the equation of the loop exists.               *)
LEMMA ProcessExists ==
    ASSUME NEW h, NEW z, NEW fills, NEW n \in Nat
    PROVE  \E g : IsProcess(g, h, z, fills, n)
<1> DEFINE T == {m \in Nat : ~ \E g : IsProcess(g, h, z, fills, m)}
<1>1. SUFFICES ASSUME T # {} PROVE FALSE
  OBVIOUS
<1>2. PICK m \in T : \A y \in T : ~ (y < m)
  BY <1>1, LeastElement
<1>3. CASE m = 0
  <2> DEFINE g == [i \in 0..0 |-> z]
  <2>1. IsProcess(g, h, z, fills, 0)
    BY DEF IsProcess
  <2> QED BY <1>3, <2>1
<1>4. CASE m # 0
  <2>1. m - 1 \in Nat /\ m \in Nat /\ ~ (m - 1 \in T)
    BY <1>2, <1>4
  <2>2. PICK g : IsProcess(g, h, z, fills, m - 1)
    BY <2>1
  <2> DEFINE f == [i \in 0..m |-> IF i = m THEN process_fill(h, g[m - 1], fills[m]) ELSE g[i]]
  <2>3. ASSUME NEW i \in 0..m
        PROVE  f[i] = IF i = 0 THEN z
                               ELSE process_fill(h, f[i - 1], fills[i])
    BY <1>4, <2>1, <2>2 DEF IsProcess
  <2>4. IsProcess(f, h, z, fills, m)
    BY <2>3 DEF IsProcess
  <2> QED BY <2>4
<1>5. QED BY <1>3, <1>4

(* The result is the last of the states of the loop.                        *)
LEMMA ProcessUnfold ==
    ASSUME NEW h, NEW z, NEW fills, Len(fills) \in Nat
    PROVE  \E g : /\ process_fills(h, z, fills) = g[Len(fills)]
                  /\ g[0] = z
                  /\ \A i \in 1..Len(fills) : g[i] = process_fill(h, g[i - 1], fills[i])
<1> DEFINE l == Len(fills)
<1>1. l \in Nat
  OBVIOUS
<1>2. \E g : IsProcess(g, h, z, fills, Len(fills))
  BY <1>1, ProcessExists
<1> DEFINE L == CHOOSE g : IsProcess(g, h, z, fills, Len(fills))
<1>3. IsProcess(L, h, z, fills, Len(fills))
  BY <1>2
<1>4. process_fills(h, z, fills) = L[Len(fills)]
  BY DEF process_fills, IsProcess
<1> HIDE DEF L
<1>5. IsProcess(L, h, z, fills, l)
  BY <1>3
<1> HIDE DEF l
<1>6. L[0] = z
      /\ \A i \in 1..l : L[i] = process_fill(h, L[i - 1], fills[i])
  BY <1>1, <1>5 DEF IsProcess
<1> QED BY <1>4, <1>6 DEF l

(* What the accounts hold after the first i fills: the orders that are gone *)
(* are no longer open, and what was paid out is settled or collected.       *)
Processed(h, z, fills, i, s) ==
    /\ AccountsOK(s.accounts) /\ s.fees \in BalanceSheets
    /\ \A u \in Users : s.accounts[u].open_orders =
          z.accounts[u].open_orders \ {fills[j].arrival : j \in
             {j \in 1..i : Gone(fills[j]) /\ fills[j].maker.owner = u}}
    /\ \A x \in Assets :
          SettledIn(s.accounts, x) + s.fees[x]
            = SettledIn(z.accounts, x) + z.fees[x] + Total(Values(h, fills, x), i)
    /\ \A x \in Assets : z.fees[x] <= s.fees[x]

(* Settled balances are natural numbers.                                    *)
LEMMA SettledFacts ==
    ASSUME NEW a, AccountsOK(a), NEW x \in Assets
    PROVE  /\ \A u \in 1..N : SettledOf(a, x)[u] \in Nat
           /\ SettledIn(a, x) \in Nat
<1>1. \A u \in 1..N : SettledOf(a, x)[u] \in Nat
  BY DEF AccountsOK, SettledOf, BalanceSheets, Users
<1> DEFINE f == SettledOf(a, x)
<1>2. \A u \in 1..N : f[u] \in Nat
  BY <1>1
<1> HIDE DEF f
<1>3. Total(f, N) \in Nat
  BY <1>2, TotalNat, PoolAssumption
<1> QED BY <1>1, <1>3 DEF f, SettledIn

(* One more fill.                                                           *)
LEMMA ProcessStep ==
    ASSUME NEW h, NEW z, NEW fills, Len(fills) \in Nat, NEW i \in 1..Len(fills),
           NEW s, Processed(h, z, fills, i - 1, s), NEW n, n = process_fill(h, s, fills[i]),
           fills[i] \in Fill, historic_maker_fee(h, fills[i].maker.epoch) \in Nat,
           AccountsOK(z.accounts), z.fees \in BalanceSheets,
           \A x \in Assets : \A j \in 1..Len(fills) : Values(h, fills, x)[j] \in Nat
    PROVE  Processed(h, z, fills, i, n)
<1> DEFINE fill == fills[i]
           u == fill.maker.owner
<1>1. AccountsOK(s.accounts) /\ s.fees \in BalanceSheets
  BY DEF Processed
<1>2. /\ u \in Users /\ AccountsOK(n.accounts) /\ n.fees \in BalanceSheets
      /\ n.accounts[u].open_orders =
            s.accounts[u].open_orders \ (IF Gone(fill) THEN {fill.arrival} ELSE {})
      /\ \A v \in Users \ {u} : n.accounts[v] = s.accounts[v]
      /\ \A x \in Assets :
            n.accounts[u].settled[x] + n.fees[x]
              = s.accounts[u].settled[x] + s.fees[x] + Value(h, fill, x)
      /\ \A x \in Assets : s.fees[x] <= n.fees[x]
  <2> HIDE DEF fill
  <2>1. fill \in Fill /\ historic_maker_fee(h, fill.maker.epoch) \in Nat
        /\ n = process_fill(h, s, fill)
    BY DEF fill
  <2>2. FillEffect(h, s, fill, n)
    BY <1>1, <2>1, FillAccount
  <2> QED BY <2>2 DEF FillEffect
<1>3. ASSUME NEW v \in Users
      PROVE  n.accounts[v].open_orders =
                z.accounts[v].open_orders \ {fills[j].arrival : j \in
                   {j \in 1..i : Gone(fills[j]) /\ fills[j].maker.owner = v}}
  <2> DEFINE S == {j \in 1..(i - 1) : Gone(fills[j]) /\ fills[j].maker.owner = v}
             R == {j \in 1..i : Gone(fills[j]) /\ fills[j].maker.owner = v}
  <2>1. s.accounts[v].open_orders = z.accounts[v].open_orders \ {fills[j].arrival : j \in S}
    BY DEF Processed
  <2>2. R = S \cup (IF Gone(fill) /\ u = v THEN {i} ELSE {})
    <3>1. \A j : j \in 1..i <=> j \in 1..(i - 1) \/ j = i
      OBVIOUS
    <3>2. i \notin 1..(i - 1)
      OBVIOUS
    <3> QED BY <3>1, <3>2
  <2> HIDE DEF R, S
  <2>3. n.accounts[v].open_orders =
           s.accounts[v].open_orders \ (IF Gone(fill) /\ u = v THEN {fill.arrival} ELSE {})
    BY <1>2
  <2>4. n.accounts[v].open_orders = z.accounts[v].open_orders \ {fills[j].arrival : j \in R}
    BY <2>1, <2>2, <2>3
  <2> QED BY <2>4 DEF R
<1>4. ASSUME NEW x \in Assets
      PROVE  SettledIn(n.accounts, x) + n.fees[x]
               = SettledIn(z.accounts, x) + z.fees[x] + Total(Values(h, fills, x), i)
  <2> DEFINE f == SettledOf(s.accounts, x)
             g == SettledOf(n.accounts, x)
             v == Values(h, fills, x)
             c == Value(h, fill, x)
  <2>1. \A j \in 1..N : f[j] \in Nat /\ g[j] \in Nat
    BY <1>1, <1>2, SettledFacts
  <2>2. \A j \in 1..N : j # u => f[j] = g[j]
    BY <1>2 DEF SettledOf, Users
  <2>3. f[u] = s.accounts[u].settled[x] /\ g[u] = n.accounts[u].settled[x]
    BY <1>2 DEF SettledOf
  <2>4. g[u] + n.fees[x] = f[u] + s.fees[x] + c
    BY <1>2, <2>3
  <2>5. v[i] = c /\ c \in Nat
    <3>1. v[i] = c
      BY DEF Values
    <3> QED BY <3>1
  <2>6. u \in 1..N /\ N \in Nat
    BY <1>2, PoolAssumption DEF Users
  <2>7. SettledIn(s.accounts, x) = Total(f, N) /\ SettledIn(n.accounts, x) = Total(g, N)
    BY DEF SettledIn
  <2>8. SettledIn(s.accounts, x) + s.fees[x] = SettledIn(z.accounts, x) + z.fees[x] + Total(v, i - 1)
    BY DEF Processed
  <2>9. /\ SettledIn(s.accounts, x) \in Nat /\ SettledIn(n.accounts, x) \in Nat
        /\ SettledIn(z.accounts, x) \in Nat /\ z.fees[x] \in Nat /\ s.fees[x] \in Nat
        /\ n.fees[x] \in Nat
    BY <1>1, <1>2, SettledFacts DEF BalanceSheets
  <2>10. \A j \in 1..Len(fills) : v[j] \in Nat
    OBVIOUS
  <2> HIDE DEF f, g, v, c, u, fill
  <2>11. OneChange(f, g, N, u)
    BY <2>1, <2>2 DEF OneChange
  <2>12. Total(g, N) = Total(f, N) + g[u] - f[u]
    BY <2>6, <2>11, TotalOneChange
  <2>13. Total(v, i) = Total(v, i - 1) + v[i]
    <3> DEFINE k == i - 1
    <3>1. k \in Nat /\ k + 1 = i /\ \A j \in 1..(k + 1) : j \in 1..Len(fills)
      OBVIOUS
    <3>2. \A j \in 1..(k + 1) : v[j] \in Int
      BY <2>10, <3>1
    <3> HIDE DEF k
    <3>3. Total(v, k + 1) = Total(v, k) + v[k + 1]
      BY <3>1, <3>2, TotalExtend
    <3> QED BY <3>1, <3>3 DEF k
  <2>14. Total(v, i - 1) \in Nat
    <3> DEFINE k == i - 1
    <3>1. k \in Nat /\ \A j \in 1..k : j \in 1..Len(fills)
      OBVIOUS
    <3>2. \A j \in 1..k : v[j] \in Nat
      BY <2>10, <3>1
    <3> HIDE DEF k
    <3>3. Total(v, k) \in Nat
      BY <3>1, <3>2, TotalNat
    <3> QED BY <3>3 DEF k
  <2>15. f[u] \in Nat /\ g[u] \in Nat
    BY <2>1, <2>6
  <2> DEFINE sa == SettledIn(s.accounts, x)
             na == SettledIn(n.accounts, x)
             aa == SettledIn(z.accounts, x)
             sf == s.fees[x]
             nf == n.fees[x]
             af == z.fees[x]
             old == f[u]
             new_ == g[u]
             before == Total(v, i - 1)
             after == Total(v, i)
  <2>16. /\ na = sa + new_ - old /\ sa + sf = aa + af + before /\ new_ + nf = old + sf + c
         /\ sa \in Nat /\ na \in Nat /\ aa \in Nat /\ sf \in Nat /\ nf \in Nat /\ af \in Nat
         /\ old \in Nat /\ new_ \in Nat /\ before \in Nat /\ after = before + c /\ c \in Nat
    BY <2>4, <2>5, <2>7, <2>8, <2>9, <2>12, <2>13, <2>14, <2>15
  <2> HIDE DEF sa, na, aa, sf, nf, af, old, new_, before, after
  <2>17. na + nf = aa + af + after
    BY <2>16
  <2> QED BY <2>17 DEF na, aa, v, nf, af, after
<1>5. ASSUME NEW x \in Assets
      PROVE  z.fees[x] <= n.fees[x]
  <2>1. z.fees[x] <= s.fees[x]
    BY DEF Processed
  <2>2. s.fees[x] <= n.fees[x]
    BY <1>2
  <2>3. z.fees[x] \in Nat /\ s.fees[x] \in Nat /\ n.fees[x] \in Nat
    BY <1>1, <1>2 DEF BalanceSheets
  <2> QED BY <2>1, <2>2, <2>3
<1> QED BY <1>2, <1>3, <1>4, <1>5 DEF Processed

(* All fills (process_fills).                                               *)
LEMMA ProcessResult ==
    ASSUME NEW b, BookOK(b), NEW h, RatesOK(b, h), NEW z, NEW m, FillsMatched(b, m),
           AccountsOK(z.accounts), z.fees \in BalanceSheets
    PROVE  Processed(h, z, m.fills, Len(m.fills), process_fills(h, z, m.fills))
<1> DEFINE fills == m.fills
           l == Len(fills)
<1>1. l \in Nat /\ \A x \in Assets : \A j \in 1..l : Values(h, fills, x)[j] \in Nat
  <2>1. l \in Nat
    BY DEF FillsMatched
  <2> QED BY <2>1, ValuesFacts
<1>2. ASSUME NEW i \in 1..l
      PROVE  fills[i] \in Fill /\ historic_maker_fee(h, fills[i].maker.epoch) \in Nat
  <2>1. fills \in Seq(Fill) /\ fills[i].arrival \in DOMAIN b /\ fills[i].maker = b[fills[i].arrival]
    BY DEF FillsMatched
  <2> QED BY <2>1 DEF RatesOK
<1> HIDE DEF fills
<1>3. PICK g : /\ process_fills(h, z, fills) = g[Len(fills)]
               /\ g[0] = z
               /\ \A i \in 1..l : g[i] = process_fill(h, g[i - 1], fills[i])
  <2>1. Len(fills) \in Nat
    BY <1>1
  <2> QED BY <2>1, ProcessUnfold
<1> DEFINE Good(i) == Processed(h, z, fills, i, g[i])
           T == {i \in 0..l : ~ Good(i)}
<1>4. T = {}
  <2> SUFFICES ASSUME T # {} PROVE FALSE
    OBVIOUS
  <2>1. PICK i \in T : \A y \in T : ~ (y < i)
    <3>1. T \subseteq 0..l
      OBVIOUS
    <3> HIDE DEF T, l
    <3> QED BY <1>1, <3>1, LeastIndex
  <2>2. CASE i = 0
    <3> DEFINE s == z
    <3>1. \A x \in Assets : Total(Values(h, fills, x), 0) = 0
      <4> TAKE x \in Assets
      <4> DEFINE v == Values(h, fills, x)
      <4>1. \A j \in 1..0 : v[j] = 0
        OBVIOUS
      <4> HIDE DEF v
      <4>2. Total(v, 0) = 0
        BY <4>1, TotalZero
      <4> QED BY <4>2 DEF v
    <3>2. \A x \in Assets : SettledIn(z.accounts, x) \in Nat /\ z.fees[x] \in Nat
      BY SettledFacts DEF BalanceSheets
    <3>3. s.accounts = z.accounts /\ s.fees = z.fees
      OBVIOUS
    <3> HIDE DEF s
    <3>4. \A x \in Assets : SettledIn(s.accounts, x) + s.fees[x]
            = SettledIn(z.accounts, x) + z.fees[x] + Total(Values(h, fills, x), 0)
      BY <3>1, <3>2, <3>3
    <3>5. \A u \in Users : {fills[j].arrival : j \in
             {j \in 1..0 : Gone(fills[j]) /\ fills[j].maker.owner = u}} = {}
      OBVIOUS
    <3>6. Processed(h, z, fills, 0, s)
      BY <3>2, <3>3, <3>4, <3>5 DEF Processed
    <3> QED BY <1>3, <2>1, <2>2, <3>6 DEF s
  <2>3. CASE i # 0
    <3>1. i - 1 \in 0..l /\ i - 1 \notin T /\ i \in 1..l
      BY <1>1, <2>1, <2>3
    <3>2. Processed(h, z, fills, i - 1, g[i - 1]) /\ ~ Processed(h, z, fills, i, g[i])
      BY <2>1, <3>1
    <3>3. g[i] = process_fill(h, g[i - 1], fills[i])
      BY <1>3, <3>1
    <3> QED BY <1>1, <1>2, <3>1, <3>2, <3>3, ProcessStep
  <2> QED BY <2>2, <2>3
<1>5. Processed(h, z, fills, l, g[l])
  BY <1>1, <1>4
<1> QED BY <1>3, <1>5 DEF fills

-----------------------------------------------------------------------------
(* The inductive invariant. *)

(* Arrival numbers and order IDs: the counters of the two sides bound the   *)
(* IDs that rest, so that a new order comes after all of its price.         *)
CountersOK(b, bid, ask) ==
    /\ bid \in Nat /\ ask \in Nat /\ 1 <= bid /\ 1 <= ask
    /\ bid <= MaxOrders + 1 /\ (MaxOrders + 1 - bid) + (ask - 1) <= MaxOrders
    /\ \A k \in DOMAIN b :
          /\ k <= (MaxOrders + 1 - bid) + (ask - 1)
          /\ IF b[k].is_bid THEN bid <= b[k].seq ELSE b[k].seq <= ask

(* The history knows the maker fee of the epoch of every resting order, and *)
(* the one of its last epoch is the one in force.                           *)
FeesOK(g, h, e) ==
    /\ g \in [epoch : Nat, trade_params : Params, next_trade_params : Params]
    /\ h.epoch = g.epoch /\ e \in Nat /\ g.epoch <= e
    /\ h.epoch \in DOMAIN h.maker_fee /\ h.maker_fee[h.epoch] = g.trade_params.maker_fee
    /\ \A d \in DOMAIN h.maker_fee : d \in Nat /\ d <= h.epoch /\ h.maker_fee[d] \in Nat

EpochsKnown(b, h) == \A k \in DOMAIN b : b[k].epoch \in DOMAIN h.maker_fee

Uncrossed(b) == \A i \in Side(b, TRUE), j \in Side(b, FALSE) : b[i].price < b[j].price

OpenOrders(a, b) ==
    \A u \in Users : /\ a[u].open_orders = {k \in DOMAIN b : b[k].owner = u}
                     /\ Cardinality(a[u].open_orders) <= MaxOpenOrders

(* What users can claim is in the vault, whatever becomes of the fees.      *)
Covered(a, b, h, v) == \A x \in Assets : SettledIn(a, x) + LockedIn(b, h, x) <= v[x]

BookInv ==
    /\ BookOK(book) /\ CountersOK(book, nextBid, nextAsk)
    /\ Uncrossed(book) /\ OpenOrders(accounts, book)

FeeInv == FeesOK(gov, history, epoch) /\ EpochsKnown(book, history)

MoneyInv ==
    /\ AccountsOK(accounts) /\ fees \in BalanceSheets /\ vault \in BalanceSheets
    /\ rewards \in BalanceSheets /\ wallet \in [Users -> BalanceSheets]
    /\ Covered(accounts, book, history, vault)

RestInv ==
    /\ now \in Nat /\ splits \in Nat /\ kind \in PoolKinds /\ ewma \in BOOLEAN
    /\ kind = "whitelisted" =>
          /\ gov.trade_params = [taker_fee |-> 0, maker_fee |-> 0]
          /\ gov.next_trade_params = [taker_fee |-> 0, maker_fee |-> 0]
    /\ ewma => kind \in EwmaKinds

IInv == BookInv /\ FeeInv /\ MoneyInv /\ RestInv

-----------------------------------------------------------------------------
(* The fees of an epoch. *)

(* The objects every handler works with are those of the current epoch, and *)
(* the rates of earlier epochs are kept (update of Governance and History). *)
LEMMA UpdatedFees ==
    ASSUME FeesOK(gov, history, epoch)
    PROVE  /\ FeesOK(G, H, epoch) /\ G.epoch = epoch /\ H.epoch = epoch
           /\ \A d \in DOMAIN history.maker_fee :
                 d \in DOMAIN H.maker_fee /\ H.maker_fee[d] = history.maker_fee[d]
<1>1. /\ gov \in [epoch : Nat, trade_params : Params, next_trade_params : Params]
      /\ history.epoch = gov.epoch /\ epoch \in Nat /\ gov.epoch <= epoch
      /\ history.epoch \in DOMAIN history.maker_fee
      /\ history.maker_fee[history.epoch] = gov.trade_params.maker_fee
      /\ \A d \in DOMAIN history.maker_fee :
            d \in Nat /\ d <= history.epoch /\ history.maker_fee[d] \in Nat
  BY DEF FeesOK
<1>2. CASE gov.epoch = epoch
  <2>1. G = gov /\ H = history
    BY <1>1, <1>2 DEF G, H, update_governance, update_history
  <2> QED BY <1>1, <1>2, <2>1
<1>3. CASE gov.epoch # epoch
  <2> DEFINE p == gov.next_trade_params
             f == With(history.maker_fee, epoch, p.maker_fee)
  <2>1. G = [gov EXCEPT !.epoch = epoch, !.trade_params = p]
    BY <1>3 DEF G, update_governance
  <2>2. p \in Params /\ p.maker_fee \in Nat
    BY <1>1 DEF Params
  <2> HIDE DEF p
  <2>3. /\ G \in [epoch : Nat, trade_params : Params, next_trade_params : Params]
        /\ G.epoch = epoch /\ G.trade_params = p
    BY <1>1, <2>1, <2>2
  <2>4. H = [epoch |-> epoch, maker_fee |-> f]
    BY <1>1, <1>3, <2>3 DEF H, update_history
  <2>5. H.epoch = epoch /\ H.maker_fee = f
    BY <2>4
  <2>6. gov.epoch < epoch /\ epoch \notin DOMAIN history.maker_fee
    BY <1>1, <1>3
  <2>7. /\ DOMAIN f = DOMAIN history.maker_fee \cup {epoch} /\ f[epoch] = p.maker_fee
        /\ \A d \in DOMAIN history.maker_fee : f[d] = history.maker_fee[d]
    BY <2>6 DEF With
  <2> HIDE DEF f
  <2>8. \A d \in DOMAIN f : d \in Nat /\ d <= epoch /\ f[d] \in Nat
    BY <1>1, <2>2, <2>6, <2>7
  <2>9. FeesOK(G, H, epoch)
    BY <1>1, <2>3, <2>5, <2>7, <2>8 DEF FeesOK
  <2> QED BY <2>3, <2>5, <2>7, <2>9
<1> QED BY <1>2, <1>3

(* So what the orders of a book lock is not changed by an update.           *)
LEMMA UpdatedLocks ==
    ASSUME FeeInv
    PROVE  /\ RatesOK(book, H) /\ EpochsKnown(book, H)
           /\ \A x \in Assets : LockedIn(book, H, x) = LockedIn(book, history, x)
<1>1. FeesOK(gov, history, epoch) /\ EpochsKnown(book, history)
  BY DEF FeeInv
<1>2. FeesOK(G, H, epoch)
      /\ \A d \in DOMAIN history.maker_fee :
            d \in DOMAIN H.maker_fee /\ H.maker_fee[d] = history.maker_fee[d]
  BY <1>1, UpdatedFees
<1>3. \A k \in DOMAIN book : /\ book[k].epoch \in DOMAIN H.maker_fee
                             /\ H.maker_fee[book[k].epoch] = history.maker_fee[book[k].epoch]
                             /\ H.maker_fee[book[k].epoch] \in Nat
  BY <1>1, <1>2 DEF EpochsKnown, FeesOK
<1>4. ASSUME NEW x \in Assets
      PROVE  LockedIn(book, H, x) = LockedIn(book, history, x)
  <2>1. Locks(book, H, x) = Locks(book, history, x)
    BY <1>3 DEF Locks, historic_maker_fee
  <2> QED BY <2>1 DEF LockedIn
<1> QED BY <1>3, <1>4 DEF RatesOK, EpochsKnown, historic_maker_fee

-----------------------------------------------------------------------------
(* The invariant at the start, and what it implies. *)

(* A pool starts with an empty book and an empty vault.                     *)
LEMMA StartsWithIt == Init => IInv
<1> SUFFICES ASSUME Init PROVE IInv
  OBVIOUS
<1>1. MaxOrders \in Nat /\ MaxOpenOrders \in Nat /\ N \in Nat
  BY PoolAssumption
<1>2. /\ now = 1 /\ epoch = 0 /\ kind \in PoolKinds /\ ewma = FALSE /\ splits = 0
      /\ book = <<>> /\ nextBid = MaxOrders + 1 /\ nextAsk = 1
      /\ accounts = [u \in Users |-> [open_orders |-> {}, settled |-> Nothing]]
      /\ fees = Nothing /\ wallet = InitialFunds /\ vault = Nothing /\ rewards = Nothing
  BY DEF Init
<1>3. DOMAIN book = {}
  BY <1>2
<1>4. BookInv
  <2>1. BookOK(book)
    <3>1. book = [k \in DOMAIN book |-> book[k]]
      BY <1>2
    <3> QED BY <1>3, <3>1 DEF BookOK
  <2>2. CountersOK(book, nextBid, nextAsk)
    BY <1>1, <1>2, <1>3 DEF CountersOK
  <2>3. Uncrossed(book)
    BY <1>3 DEF Uncrossed, Side
  <2>4. OpenOrders(accounts, book)
    <3>1. Cardinality({}) = 0
      BY FS_EmptySet, Zenon
    <3>2. \A u \in Users : accounts[u].open_orders = {}
      BY <1>2
    <3>3. \A u \in Users : accounts[u].open_orders = {k \in DOMAIN book : book[k].owner = u}
      BY <1>3, <3>2
    <3>4. 0 <= MaxOpenOrders
      BY <1>1
    <3>5. \A u \in Users : Cardinality(accounts[u].open_orders) = 0
      BY <3>1, <3>2, Zenon
    <3> QED BY <3>3, <3>4, <3>5, Zenon DEF OpenOrders
  <2> QED BY <2>1, <2>2, <2>3, <2>4 DEF BookInv
<1>5. PICK p \in InitialParams(kind) :
         /\ gov = [epoch |-> 0, trade_params |-> p, next_trade_params |-> p]
         /\ history = [epoch |-> 0, maker_fee |-> [e \in {0} |-> p.maker_fee]]
  BY DEF Init
<1>6. p \in Params /\ p.maker_fee \in Nat
      /\ (kind = "whitelisted" => p = [taker_fee |-> 0, maker_fee |-> 0])
  BY PoolAssumption DEF InitialParams, Params
<1>7. FeeInv
  <2>1. /\ gov \in [epoch : Nat, trade_params : Params, next_trade_params : Params]
        /\ gov.epoch = 0 /\ gov.trade_params = p
    BY <1>5, <1>6
  <2>2. history.epoch = 0 /\ DOMAIN history.maker_fee = {0} /\ history.maker_fee[0] = p.maker_fee
    BY <1>5
  <2>3. FeesOK(gov, history, epoch)
    BY <1>2, <1>6, <2>1, <2>2 DEF FeesOK
  <2> QED BY <1>3, <2>3 DEF FeeInv, EpochsKnown
<1>8. MoneyInv
  <2>1. AccountsOK(accounts)
    BY <1>2, NothingSheet DEF AccountsOK
  <2>2. ASSUME NEW x \in Assets
        PROVE  SettledIn(accounts, x) + LockedIn(book, history, x) <= vault[x]
    <3> DEFINE f == SettledOf(accounts, x)
               g == Locks(book, history, x)
    <3>1. \A u \in 1..N : f[u] = 0
      BY <1>2, NothingSheet DEF SettledOf, Users
    <3>2. \A k \in 1..MaxOrders : g[k] = 0
      BY <1>3 DEF Locks
    <3> HIDE DEF f, g
    <3>3. Total(f, N) = 0 /\ Total(g, MaxOrders) = 0
      BY <1>1, <3>1, <3>2, TotalZero
    <3>4. vault[x] = 0
      BY <1>2, NothingSheet
    <3> QED BY <3>3, <3>4 DEF f, g, SettledIn, LockedIn
  <2> QED BY <1>2, <2>1, <2>2, NothingSheet, PoolAssumption DEF MoneyInv, Covered
<1>9. RestInv
  BY <1>2, <1>5, <1>6 DEF RestInv
<1> QED BY <1>4, <1>7, <1>8, <1>9 DEF IInv

(* Its parts are the properties of Pool.                                    *)
LEMMA Implied == IInv => BookIsSound
<1> SUFFICES ASSUME IInv PROVE TypeOK /\ NotCrossed /\ OpenOrdersMatchBook
  BY DEF BookIsSound
<1>1. BookInv /\ FeeInv /\ MoneyInv /\ RestInv
  BY DEF IInv
<1>2. NotCrossed /\ OpenOrdersMatchBook
  BY <1>1 DEF BookInv, Uncrossed, OpenOrders, NotCrossed, OpenOrdersMatchBook
<1>3. /\ gov \in [epoch : Nat, trade_params : Params, next_trade_params : Params]
      /\ epoch \in Nat /\ history.epoch \in Nat
      /\ \A e \in DOMAIN history.maker_fee : e \in Nat /\ history.maker_fee[e] \in Nat
  BY <1>1 DEF FeeInv, FeesOK
<1>4. /\ DOMAIN book \subseteq 1..MaxOrders /\ nextBid \in Nat /\ nextAsk \in Nat
      /\ \A k \in DOMAIN book : book[k] \in Order /\ book[k].filled < book[k].quantity
  BY <1>1 DEF BookInv, BookOK, CountersOK
<1> QED BY <1>1, <1>2, <1>3, <1>4 DEF TypeOK, MoneyInv, RestInv, AccountsOK

-----------------------------------------------------------------------------
(* Money that moves. *)

(* SettleWithReferral as a relation of what there was and what there is.    *)
Moved(w, v, r, u, out, in, fee, ww, vv, rr) ==
    /\ \A x \in Assets : /\ out[x] <= v[x] + in[x]
                         /\ in[x] <= w[u][x] + out[x]
                         /\ fee[x] <= w[u][x] + out[x] - in[x]
    /\ vv = [x \in Assets |-> v[x] + in[x] - out[x]]
    /\ ww = [w EXCEPT ![u] = [x \in Assets |-> w[u][x] + out[x] - in[x] - fee[x]]]
    /\ rr = add_balances(r, fee)

Movable(w, v, r, u, out, in, fee) ==
    /\ w \in [Users -> BalanceSheets] /\ v \in BalanceSheets /\ r \in BalanceSheets
    /\ u \in Users /\ out \in BalanceSheets /\ in \in BalanceSheets /\ fee \in BalanceSheets

SheetsMoved(v, out, in, ww, vv, rr) ==
    /\ ww \in [Users -> BalanceSheets] /\ vv \in BalanceSheets /\ rr \in BalanceSheets
    /\ \A x \in Assets : vv[x] + out[x] = v[x] + in[x]

(* No balance becomes negative (settle_balance_manager).                    *)
LEMMA MovedSheets ==
    ASSUME NEW w, NEW v, NEW r, NEW u, NEW out, NEW in, NEW fee, NEW ww, NEW vv, NEW rr,
           Movable(w, v, r, u, out, in, fee), Moved(w, v, r, u, out, in, fee, ww, vv, rr)
    PROVE  SheetsMoved(v, out, in, ww, vv, rr)
<1>0. /\ w \in [Users -> BalanceSheets] /\ v \in BalanceSheets /\ r \in BalanceSheets
      /\ u \in Users /\ out \in BalanceSheets /\ in \in BalanceSheets /\ fee \in BalanceSheets
  BY DEF Movable
<1> DEFINE z == w[u]
           y == [x \in Assets |-> z[x] + out[x] - in[x] - fee[x]]
<1>1. z \in BalanceSheets
  BY <1>0
<1>2. \A x \in Assets : v[x] \in Nat /\ z[x] \in Nat /\ out[x] \in Nat /\ in[x] \in Nat
                        /\ fee[x] \in Nat
  BY <1>0, <1>1 DEF BalanceSheets
<1>3. /\ \A x \in Assets : out[x] <= v[x] + in[x] /\ fee[x] <= z[x] + out[x] - in[x]
      /\ vv = [x \in Assets |-> v[x] + in[x] - out[x]]
      /\ ww = [w EXCEPT ![u] = y] /\ rr = add_balances(r, fee)
  BY DEF Moved
<1>4. vv \in BalanceSheets /\ \A x \in Assets : vv[x] + out[x] = v[x] + in[x]
  BY <1>2, <1>3 DEF BalanceSheets
<1>5. y \in BalanceSheets
  <2> HIDE DEF z
  <2>1. \A x \in Assets : z[x] + out[x] - in[x] - fee[x] \in Nat
    BY <1>2, <1>3
  <2> QED BY <2>1 DEF BalanceSheets
<1> HIDE DEF y
<1>6. ww \in [Users -> BalanceSheets]
  BY <1>0, <1>3, <1>5
<1>7. rr \in BalanceSheets
  BY <1>0, <1>3, AddSheets
<1> QED BY <1>4, <1>6, <1>7 DEF SheetsMoved

(* Terms split in two parts give at most the total.                         *)
LEMMA TotalParts ==
    ASSUME NEW n \in Nat, NEW f, NEW g, NEW h,
           \A i \in 1..n : f[i] \in Nat /\ g[i] \in Nat /\ h[i] \in Nat /\ g[i] + h[i] <= f[i]
    PROVE  /\ Total(g, n) + Total(h, n) <= Total(f, n)
           /\ Total(f, n) \in Nat /\ Total(g, n) \in Nat /\ Total(h, n) \in Nat
<1> DEFINE s == [i \in 1..n |-> g[i] + h[i]]
<1>1. \A i \in 1..n : g[i] \in Int /\ h[i] \in Int /\ s[i] = g[i] + h[i]
  OBVIOUS
<1>2. \A i \in 1..n : s[i] \in Int /\ f[i] \in Int /\ s[i] <= f[i]
  OBVIOUS
<1> HIDE DEF s
<1>3. Total(s, n) = Total(g, n) + Total(h, n)
  BY <1>1, TotalAdd, Zenon
<1>4. Total(s, n) <= Total(f, n)
  BY <1>2, TotalMonotone
<1>5. Total(f, n) \in Nat /\ Total(g, n) \in Nat /\ Total(h, n) \in Nat
  BY TotalNat
<1> QED BY <1>3, <1>4, <1>5

(* An account that settles takes its settled balance out of the sum.        *)
LEMMA SettledOut ==
    ASSUME NEW a, AccountsOK(a), NEW u \in Users, NEW c, AccountsOK(c),
           c[u].settled = Nothing, \A v \in Users \ {u} : c[v].settled = a[v].settled,
           NEW x \in Assets
    PROVE  /\ SettledIn(c, x) + a[u].settled[x] = SettledIn(a, x)
           /\ a[u].settled[x] \in Nat /\ SettledIn(c, x) \in Nat /\ SettledIn(a, x) \in Nat
<1> DEFINE f == SettledOf(a, x)
           g == SettledOf(c, x)
<1>1. \A j \in 1..N : f[j] \in Nat /\ g[j] \in Nat
  BY SettledFacts
<1>2. \A j \in 1..N : j # u => f[j] = g[j]
  BY DEF SettledOf, Users
<1>3. f[u] = a[u].settled[x] /\ g[u] = 0
  BY NothingSheet DEF SettledOf
<1>4. u \in 1..N /\ N \in Nat
  BY PoolAssumption DEF Users
<1>5. SettledIn(a, x) = Total(f, N) /\ SettledIn(c, x) = Total(g, N)
  BY DEF SettledIn
<1>6. SettledIn(a, x) \in Nat /\ SettledIn(c, x) \in Nat
  BY SettledFacts
<1>7. OneChange(f, g, N, u)
  <2> HIDE DEF f, g
  <2> QED BY <1>1, <1>2 DEF OneChange
<1> HIDE DEF f, g
<1>8. Total(g, N) = Total(f, N) + g[u] - f[u]
  BY <1>4, <1>7, TotalOneChange
<1>9. f[u] \in Nat
  BY <1>1, <1>4
<1> QED BY <1>3, <1>5, <1>6, <1>8, <1>9

(* A refund that the locks of the book covered, and the settled balance of  *)
(* its owner, leave the vault covering the rest.                            *)
PaysBack(a, b, h, w, v, r, u, refund, out, c, bb, hh, ww, vv, rr) ==
    /\ AccountsOK(a) /\ AccountsOK(c) /\ w \in [Users -> BalanceSheets]
    /\ v \in BalanceSheets /\ r \in BalanceSheets /\ u \in Users /\ out \in BalanceSheets
    /\ Covered(a, b, h, v)
    /\ c[u].settled = Nothing /\ \A y \in Users \ {u} : c[y].settled = a[y].settled
    /\ \A x \in Assets : /\ refund[x] \in Nat /\ out[x] = refund[x] + a[u].settled[x]
                         /\ LockedIn(b, h, x) \in Nat /\ LockedIn(bb, hh, x) \in Nat
                         /\ refund[x] + LockedIn(bb, hh, x) <= LockedIn(b, h, x)
    /\ Moved(w, v, r, u, out, Nothing, Nothing, ww, vv, rr)

(* The vault pays out no more than it stops owing.                          *)
OwesLess(a, b, h, v, c, bb, hh, vv) ==
    \A x \in Assets :
        SettledIn(c, x) + LockedIn(bb, hh, x) + v[x]
          <= vv[x] + SettledIn(a, x) + LockedIn(b, h, x)

(* A step that only moves what the pool owed before, and places no order.   *)
Refunded ==
    /\ UNCHANGED <<fees, nextBid, nextAsk>>
    /\ OwesLess(accounts, book, history, vault, accounts', book', history', vault')

(* The transfer of a cancel, a modification or a withdrawal.                *)
LEMMA PaidBack ==
    ASSUME NEW a, NEW b, NEW h, NEW w, NEW v, NEW r, NEW u, NEW refund, NEW out,
           NEW c, NEW bb, NEW hh, NEW ww, NEW vv, NEW rr,
           PaysBack(a, b, h, w, v, r, u, refund, out, c, bb, hh, ww, vv, rr)
    PROVE  /\ ww \in [Users -> BalanceSheets] /\ vv \in BalanceSheets /\ rr \in BalanceSheets
           /\ Covered(c, bb, hh, vv) /\ OwesLess(a, b, h, v, c, bb, hh, vv)
<1>1. /\ AccountsOK(a) /\ AccountsOK(c) /\ w \in [Users -> BalanceSheets]
      /\ v \in BalanceSheets /\ r \in BalanceSheets /\ u \in Users /\ out \in BalanceSheets
      /\ c[u].settled = Nothing /\ \A y \in Users \ {u} : c[y].settled = a[y].settled
      /\ Moved(w, v, r, u, out, Nothing, Nothing, ww, vv, rr)
  BY DEF PaysBack
<1>2. /\ ww \in [Users -> BalanceSheets] /\ vv \in BalanceSheets /\ rr \in BalanceSheets
      /\ \A x \in Assets : vv[x] + out[x] = v[x] + Nothing[x]
  <2>1. Movable(w, v, r, u, out, Nothing, Nothing)
    BY <1>1, NothingSheet DEF Movable
  <2>2. SheetsMoved(v, out, Nothing, ww, vv, rr)
    BY <1>1, <2>1, MovedSheets
  <2> QED BY <2>2 DEF SheetsMoved
<1>3. ASSUME NEW x \in Assets
      PROVE  /\ SettledIn(c, x) + LockedIn(bb, hh, x) <= vv[x]
             /\ SettledIn(c, x) + LockedIn(bb, hh, x) + v[x]
                  <= vv[x] + SettledIn(a, x) + LockedIn(b, h, x)
  <2> DEFINE sa == SettledIn(a, x)
             sc == SettledIn(c, x)
             mine == a[u].settled[x]
             lb == LockedIn(b, h, x)
             lbb == LockedIn(bb, hh, x)
             back == refund[x]
             o == out[x]
             vx == v[x]
             vvx == vv[x]
  <2>1. sc + mine = sa /\ mine \in Nat /\ sc \in Nat /\ sa \in Nat
    BY <1>1, SettledOut
  <2>2. /\ back \in Nat /\ o = back + mine /\ lb \in Nat /\ lbb \in Nat /\ back + lbb <= lb
        /\ sa + lb <= vx
    BY DEF PaysBack, Covered
  <2>3. vvx + o = vx + 0 /\ vx \in Nat /\ vvx \in Nat
    BY <1>1, <1>2, NothingSheet DEF BalanceSheets
  <2> HIDE DEF sa, sc, mine, lb, lbb, back, o, vx, vvx
  <2>4. sc + lbb <= vvx /\ sc + lbb + vx <= vvx + sa + lb
    BY <2>1, <2>2, <2>3
  <2> QED BY <2>4 DEF sc, lbb, vvx, vx, sa, lb
<1> QED BY <1>2, <1>3 DEF Covered, OwesLess

-----------------------------------------------------------------------------
(* Parts of the invariant that many handlers keep in the same way. *)

(* A lazy update changes no fee of a whitelisted pool (update_governance).  *)
LEMMA RestKept ==
    ASSUME RestInv, FeesOK(gov, history, epoch), kind' = kind, ewma' = ewma,
           now' \in Nat, splits' \in Nat, gov' = G \/ gov' = gov
    PROVE  RestInv'
<1>1. gov \in [epoch : Nat, trade_params : Params, next_trade_params : Params]
  BY DEF FeesOK
<1>2. /\ G.trade_params \in {gov.trade_params, gov.next_trade_params}
      /\ G.next_trade_params = gov.next_trade_params
  BY <1>1 DEF G, update_governance
<1> QED BY <1>2 DEF RestInv

(* The lazy updates keep the history complete (update_history).             *)
LEMMA FeesKept ==
    ASSUME FeeInv, epoch' = epoch, gov' = G, history' = H, EpochsKnown(book', H)
    PROVE  FeeInv'
<1>1. FeesOK(G, H, epoch)
  BY UpdatedFees DEF FeeInv
<1> QED BY <1>1 DEF FeeInv

(* The books of two states with the same counters and no new order.         *)
LEMMA FewerOrders ==
    ASSUME NEW b, NEW c, NEW bid, NEW ask, CountersOK(b, bid, ask), Uncrossed(b),
           DOMAIN c \subseteq DOMAIN b,
           \A k \in DOMAIN c : /\ c[k].is_bid = b[k].is_bid /\ c[k].seq = b[k].seq
                               /\ c[k].price = b[k].price
    PROVE  CountersOK(c, bid, ask) /\ Uncrossed(c)
<1>1. CountersOK(c, bid, ask)
  BY DEF CountersOK
<1>2. Uncrossed(c)
  <2>1. Side(c, TRUE) \subseteq Side(b, TRUE) /\ Side(c, FALSE) \subseteq Side(b, FALSE)
    BY DEF Side
  <2> QED BY <2>1 DEF Uncrossed, Side
<1> QED BY <1>1, <1>2

-----------------------------------------------------------------------------
(* Withdrawals (withdraw_settled_amounts). *)

(* A withdrawal keeps the invariant.                                        *)
LEMMA WithdrawStep ==
    ASSUME IInv, NEW u \in Users, WithdrawSettledAmounts(u)
    PROVE  IInv' /\ Refunded
<1>1. BookInv /\ FeeInv /\ MoneyInv /\ RestInv
  BY DEF IInv
<1>2. /\ Moved(wallet, vault, rewards, u, accounts[u].settled, Nothing, Nothing,
               wallet', vault', rewards')
      /\ accounts' = [accounts EXCEPT ![u].settled = Nothing]
      /\ UNCHANGED <<now, epoch, kind, ewma, gov, history, book, nextBid, nextAsk,
                     fees, splits>>
  BY DEF WithdrawSettledAmounts, settle_balance_manager, SettleWithReferral,
         TransferCompletes, Moved
<1>3. AccountsOK(accounts) /\ fees \in BalanceSheets /\ vault \in BalanceSheets
      /\ rewards \in BalanceSheets /\ wallet \in [Users -> BalanceSheets]
      /\ Covered(accounts, book, history, vault)
  BY <1>1 DEF MoneyInv
<1>4. /\ AccountsOK(accounts') /\ accounts'[u].settled = Nothing
      /\ \A y \in Users \ {u} : accounts'[y] = accounts[y]
      /\ \A y \in Users : accounts'[y].open_orders = accounts[y].open_orders
  BY <1>2, <1>3, NothingSheet DEF AccountsOK
<1>5. BookInv'
  BY <1>1, <1>2, <1>4 DEF BookInv, OpenOrders
<1>6. FeeInv' /\ RestInv'
  BY <1>1, <1>2 DEF FeeInv, RestInv
<1>7. PaysBack(accounts, book, history, wallet, vault, rewards, u, Nothing,
               accounts[u].settled, accounts', book, history, wallet', vault', rewards')
  <2>1. accounts[u].settled \in BalanceSheets
    BY <1>3 DEF AccountsOK
  <2>2. RatesOK(book, history)
    BY <1>1 DEF FeeInv, FeesOK, EpochsKnown, RatesOK, historic_maker_fee
  <2>3. \A x \in Assets : LockedIn(book, history, x) \in Nat
    BY <1>1, <2>2, LocksFacts DEF BookInv
  <2>4. \A x \in Assets :
           /\ Nothing[x] \in Nat /\ accounts[u].settled[x] = Nothing[x] + accounts[u].settled[x]
           /\ LockedIn(book, history, x) \in Nat
           /\ Nothing[x] + LockedIn(book, history, x) <= LockedIn(book, history, x)
    BY <2>1, <2>3, NothingSheet DEF BalanceSheets
  <2> QED BY <1>2, <1>3, <1>4, <2>1, <2>4 DEF PaysBack
<1>8. MoneyInv' /\ Refunded
  <2>1. /\ wallet' \in [Users -> BalanceSheets] /\ vault' \in BalanceSheets
        /\ rewards' \in BalanceSheets /\ Covered(accounts', book, history, vault')
        /\ OwesLess(accounts, book, history, vault, accounts', book, history, vault')
    BY <1>7, PaidBack
  <2> QED BY <1>2, <1>3, <1>4, <2>1 DEF MoneyInv, Refunded
<1> QED BY <1>5, <1>6, <1>8 DEF IInv

-----------------------------------------------------------------------------
(* Cancels and modifications (cancel_order, modify_order). *)

RefundsOf(b, h, orders, quantity, x) ==
    [k \in 1..MaxOrders |->
        IF k \in orders
        THEN LockedFor(b[k], quantity[k], historic_maker_fee(h, b[k].epoch))[x]
        ELSE 0]

(* The refunds leave enough for what still rests.                           *)
LEMMA RefundsCovered ==
    ASSUME NEW b, BookOK(b), NEW h, RatesOK(b, h), NEW orders, orders \subseteq DOMAIN b,
           NEW quantity, \A k \in orders : quantity[k] \in Nat,
           NEW c, BookOK(c), RatesOK(c, h), NEW x \in Assets,
           \A k \in 1..MaxOrders :
              RefundsOf(b, h, orders, quantity, x)[k] + Locks(c, h, x)[k] <= Locks(b, h, x)[k]
    PROVE  LET refund == Total(RefundsOf(b, h, orders, quantity, x), MaxOrders)
           IN  /\ refund \in Nat /\ refund + LockedIn(c, h, x) <= LockedIn(b, h, x)
               /\ LockedIn(c, h, x) \in Nat
<1> DEFINE f == Locks(b, h, x)
           g == RefundsOf(b, h, orders, quantity, x)
           l == Locks(c, h, x)
<1>1. MaxOrders \in Nat
  BY PoolAssumption
<1>2. \A k \in 1..MaxOrders : f[k] \in Nat /\ l[k] \in Nat
  BY LocksFacts
<1>3. ASSUME NEW k \in 1..MaxOrders
      PROVE  g[k] \in Nat
  <2>1. CASE k \in orders
    <3>1. b[k] \in Order /\ historic_maker_fee(h, b[k].epoch) \in Nat /\ quantity[k] \in Nat
      BY <2>1 DEF BookOK, RatesOK
    <3>2. LockedFor(b[k], quantity[k], historic_maker_fee(h, b[k].epoch))[x] \in Nat
      BY <3>1, OrderFields, LockedSheet
    <3> QED BY <2>1, <3>2 DEF RefundsOf
  <2>2. CASE k \notin orders
    BY <2>2 DEF RefundsOf
  <2> QED BY <2>1, <2>2
<1>4. \A k \in 1..MaxOrders : g[k] + l[k] <= f[k]
  OBVIOUS
<1> HIDE DEF f, g, l
<1>5. Total(g, MaxOrders) + Total(l, MaxOrders) <= Total(f, MaxOrders)
      /\ Total(g, MaxOrders) \in Nat /\ Total(l, MaxOrders) \in Nat
  BY <1>1, <1>2, <1>3, <1>4, TotalParts
<1> QED BY <1>5 DEF f, g, l, LockedIn

(* What a cancel takes off the book.                                        *)
LEMMA CancelBook ==
    ASSUME NEW b, BookOK(b), NEW h, RatesOK(b, h), NEW orders, orders \subseteq DOMAIN b
    PROVE  LET c == [k \in DOMAIN b \ orders |-> b[k]]
               quantity == [k \in orders |-> remaining(b[k])]
           IN  /\ BookOK(c) /\ RatesOK(c, h)
               /\ \A k \in orders : quantity[k] \in Nat
               /\ \A x \in Assets : \A k \in 1..MaxOrders :
                     RefundsOf(b, h, orders, quantity, x)[k] + Locks(c, h, x)[k]
                       <= Locks(b, h, x)[k]
<1> DEFINE c == [k \in DOMAIN b \ orders |-> b[k]]
           quantity == [k \in orders |-> remaining(b[k])]
<1>1. DOMAIN c = DOMAIN b \ orders /\ \A k \in DOMAIN c : c[k] = b[k]
  OBVIOUS
<1>2. \A k \in DOMAIN b : b[k] \in Order
  BY DEF BookOK
<1>3. BookOK(c)
  <2>1. c \in [DOMAIN c -> Order]
    BY <1>1, <1>2
  <2> HIDE DEF c
  <2> QED BY <1>1, <2>1 DEF BookOK
<1>4. \A k \in orders : quantity[k] = remaining(b[k]) /\ quantity[k] \in Nat
  <2>1. \A k \in orders : remaining(b[k]) \in Nat
    <3> TAKE k \in orders
    <3>1. b[k] \in Order /\ b[k].filled < b[k].quantity
      BY DEF BookOK
    <3> QED BY <3>1, OrderFields DEF remaining
  <2> QED BY <2>1
<1> HIDE DEF c, quantity
<1>5. RatesOK(c, h)
  BY <1>1 DEF RatesOK
<1>6. ASSUME NEW x \in Assets, NEW k \in 1..MaxOrders
      PROVE  RefundsOf(b, h, orders, quantity, x)[k] + Locks(c, h, x)[k] <= Locks(b, h, x)[k]
  <2>1. Locks(b, h, x)[k] \in Nat
    BY LocksFacts
  <2>2. CASE k \in orders
    <3>1. RefundsOf(b, h, orders, quantity, x)[k] = Locks(b, h, x)[k] /\ Locks(c, h, x)[k] = 0
      BY <1>1, <1>4, <2>2 DEF RefundsOf, Locks, locked_balance
    <3> QED BY <2>1, <3>1
  <2>3. CASE k \notin orders
    <3>1. RefundsOf(b, h, orders, quantity, x)[k] = 0
      BY <2>3 DEF RefundsOf
    <3>2. k \in DOMAIN c <=> k \in DOMAIN b
      BY <1>1, <2>3
    <3>3. Locks(c, h, x)[k] = Locks(b, h, x)[k]
      BY <1>1, <3>2 DEF Locks
    <3> QED BY <2>1, <3>1, <3>3
  <2> QED BY <2>2, <2>3
<1> QED BY <1>3, <1>4, <1>5, <1>6 DEF c, quantity

(* A sheet of refunds.                                                      *)
LEMMA RefundSheet ==
    ASSUME NEW orders, NEW quantity,
           \A x \in Assets : Total(RefundsOf(book, H, orders, quantity, x), MaxOrders) \in Nat
    PROVE  /\ Refunds(orders, quantity) \in BalanceSheets
           /\ \A x \in Assets : Refunds(orders, quantity)[x] =
                 Total(RefundsOf(book, H, orders, quantity, x), MaxOrders)
<1>1. Refunds(orders, quantity) =
         [x \in Assets |-> Total(RefundsOf(book, H, orders, quantity, x), MaxOrders)]
  BY DEF Refunds, RefundsOf, calculate_cancel_refund
<1> QED BY <1>1 DEF BalanceSheets

(* The numbers of orders an account may have are finite.                    *)
LEMMA FewOrders ==
    ASSUME NEW S, S \subseteq 1..MaxOrders, NEW T, T \subseteq S
    PROVE  /\ IsFiniteSet(S) /\ IsFiniteSet(T)
           /\ Cardinality(T) <= Cardinality(S)
           /\ Cardinality(S) \in Nat /\ Cardinality(T) \in Nat
<1>1. IsFiniteSet(1..MaxOrders)
  <2>1. MaxOrders \in Int /\ 1 \in Int
    BY PoolAssumption
  <2> QED BY <2>1, FS_Interval
<1>2. IsFiniteSet(S)
  BY <1>1, FS_Subset
<1>3. IsFiniteSet(T) /\ Cardinality(T) <= Cardinality(S)
  BY <1>2, FS_Subset
<1> QED BY <1>2, <1>3, FS_CardinalityType

(* Both fields of an account.                                               *)
LEMMA AccountRecord ==
    ASSUME NEW S, NEW T, NEW q \in [open_orders : S, settled : T], NEW open, NEW settled
    PROVE  [[q EXCEPT !.settled = settled] EXCEPT !.open_orders = open]
             = [open_orders |-> open, settled |-> settled]
<1> DEFINE d == [q EXCEPT !.settled = settled]
           e == [d EXCEPT !.open_orders = open]
<1>1. DOMAIN q = {"open_orders", "settled"}
  OBVIOUS
<1>2. DOMAIN d = {"open_orders", "settled"} /\ d["settled"] = settled
  BY <1>1
<1> HIDE DEF d
<1>3. DOMAIN e = {"open_orders", "settled"} /\ e["settled"] = settled /\ e["open_orders"] = open
      /\ e = [i \in {"open_orders", "settled"} |-> e[i]]
  BY <1>2
<1> HIDE DEF e
<1>4. e = [open_orders |-> open, settled |-> settled]
  BY <1>3
<1> QED BY <1>4 DEF d, e

(* An account without some of its orders.                                   *)
Closed(a, u, orders, c) ==
    c = [a EXCEPT ![u].settled = Nothing, ![u].open_orders = @ \ orders]

(* Its other orders are still those of the book (process_cancel).           *)
LEMMA CancelAccount ==
    ASSUME NEW a, NEW b, AccountsOK(a), OpenOrders(a, b), NEW u \in Users, NEW orders,
           orders \subseteq {k \in DOMAIN b : b[k].owner = u},
           NEW c, Closed(a, u, orders, c)
    PROVE  /\ AccountsOK(c) /\ c[u].settled = Nothing
           /\ \A y \in Users \ {u} : c[y].settled = a[y].settled
           /\ OpenOrders(c, [k \in DOMAIN b \ orders |-> b[k]])
<1> DEFINE bb == [k \in DOMAIN b \ orders |-> b[k]]
           open == a[u].open_orders \ orders
<1>1. a \in [Users -> [open_orders : SUBSET (1..MaxOrders), settled : BalanceSheets]]
  BY DEF AccountsOK
<1>2. open \in SUBSET (1..MaxOrders)
  BY <1>1
<1> DEFINE r == [open_orders |-> open, settled |-> Nothing]
<1>3. c = [a EXCEPT ![u] = r]
  <2>1. a[u] \in [open_orders : SUBSET (1..MaxOrders), settled : BalanceSheets]
    BY <1>1
  <2>2. c = [a EXCEPT ![u] = [[a[u] EXCEPT !.settled = Nothing] EXCEPT !.open_orders = open]]
    BY <1>1, <2>1 DEF Closed
  <2>3. [[a[u] EXCEPT !.settled = Nothing] EXCEPT !.open_orders = open] = r
    <3> DEFINE q == a[u]
    <3>1. q \in [open_orders : SUBSET (1..MaxOrders), settled : BalanceSheets]
      BY <2>1
    <3> HIDE DEF q, open
    <3>2. [[q EXCEPT !.settled = Nothing] EXCEPT !.open_orders = open]
            = [open_orders |-> open, settled |-> Nothing]
      BY <3>1, AccountRecord
    <3> QED BY <3>2 DEF q
  <2> QED BY <2>2, <2>3
<1>r. r \in [open_orders : SUBSET (1..MaxOrders), settled : BalanceSheets]
      /\ r.settled = Nothing /\ r.open_orders = open
  BY <1>2, NothingSheet
<1> HIDE DEF open, r
<1>4. /\ AccountsOK(c) /\ c[u].settled = Nothing /\ c[u].open_orders = open
      /\ \A y \in Users \ {u} : c[y] = a[y]
  BY <1>1, <1>3, <1>r DEF AccountsOK
<1>5. DOMAIN bb = DOMAIN b \ orders /\ \A k \in DOMAIN bb : bb[k] = b[k]
  OBVIOUS
<1> HIDE DEF bb
<1>6. \A y \in Users : c[y].open_orders = {k \in DOMAIN bb : bb[k].owner = y}
  <2> TAKE y \in Users
  <2>1. a[y].open_orders = {k \in DOMAIN b : b[k].owner = y}
    BY DEF OpenOrders
  <2>2. CASE y = u
    <3>1. c[y].open_orders = a[y].open_orders \ orders
      BY <1>4, <2>2 DEF open
    <3> QED BY <1>5, <2>1, <3>1
  <2>3. CASE y # u
    <3>1. \A k \in orders : b[k].owner # y
      BY <2>3
    <3> QED BY <1>4, <1>5, <2>1, <2>3, <3>1
  <2> QED BY <2>2, <2>3
<1>7. \A y \in Users : Cardinality(c[y].open_orders) <= MaxOpenOrders
  <2> TAKE y \in Users
  <2>1. CASE y # u
    BY <1>4, <2>1 DEF OpenOrders
  <2>2. CASE y = u
    <3>1. open \subseteq a[u].open_orders /\ a[u].open_orders \subseteq 1..MaxOrders
      BY <1>1 DEF open
    <3>4. /\ Cardinality(open) <= Cardinality(a[u].open_orders)
          /\ Cardinality(open) \in Nat /\ Cardinality(a[u].open_orders) \in Nat
      BY <3>1, FewOrders
    <3>6. Cardinality(a[u].open_orders) <= MaxOpenOrders /\ MaxOpenOrders \in Nat
      BY PoolAssumption DEF OpenOrders
    <3>7. Cardinality(open) <= MaxOpenOrders
      BY <3>4, <3>6
    <3> QED BY <1>4, <2>2, <3>7
  <2> QED BY <2>1, <2>2
<1> QED BY <1>4, <1>6, <1>7 DEF OpenOrders, bb

(* The refund of a cancel: a sheet, covered by the locks it releases.       *)
LEMMA CancelFacts ==
    ASSUME BookInv, FeeInv, MoneyInv, NEW u \in Users, NEW orders, orders \subseteq DOMAIN book
    PROVE  LET refund == Refunds(orders, [k \in orders |-> remaining(book[k])])
               bb == [k \in DOMAIN book \ orders |-> book[k]]
           IN  /\ BookOK(bb) /\ EpochsKnown(bb, H)
               /\ refund \in BalanceSheets /\ CancelRefund(u, orders) \in BalanceSheets
               /\ \A x \in Assets :
                     /\ CancelRefund(u, orders)[x] = refund[x] + accounts[u].settled[x]
                     /\ LockedIn(book, history, x) \in Nat /\ LockedIn(bb, H, x) \in Nat
                     /\ refund[x] + LockedIn(bb, H, x) <= LockedIn(book, history, x)
<1> DEFINE quantity == [k \in orders |-> remaining(book[k])]
           refund == Refunds(orders, quantity)
           bb == [k \in DOMAIN book \ orders |-> book[k]]
<1>1. BookOK(book) /\ AccountsOK(accounts)
  BY DEF BookInv, MoneyInv
<1>2. /\ RatesOK(book, H) /\ EpochsKnown(book, H)
      /\ \A x \in Assets : LockedIn(book, H, x) = LockedIn(book, history, x)
  BY UpdatedLocks
<1>3. /\ BookOK(bb) /\ RatesOK(bb, H)
      /\ \A k \in orders : quantity[k] \in Nat
      /\ \A x \in Assets : \A k \in 1..MaxOrders :
            RefundsOf(book, H, orders, quantity, x)[k] + Locks(bb, H, x)[k]
              <= Locks(book, H, x)[k]
  BY <1>1, <1>2, CancelBook
<1>4. EpochsKnown(bb, H)
  BY <1>2 DEF EpochsKnown
<1> HIDE DEF bb, quantity
<1>5. ASSUME NEW x \in Assets
      PROVE  LET r == Total(RefundsOf(book, H, orders, quantity, x), MaxOrders)
             IN  /\ r \in Nat /\ r + LockedIn(bb, H, x) <= LockedIn(book, H, x)
                 /\ LockedIn(bb, H, x) \in Nat
  BY <1>1, <1>2, <1>3, RefundsCovered
<1>6. /\ refund \in BalanceSheets
      /\ \A x \in Assets : refund[x] = Total(RefundsOf(book, H, orders, quantity, x), MaxOrders)
  BY <1>5, RefundSheet
<1>7. accounts[u].settled \in BalanceSheets
  BY <1>1 DEF AccountsOK
<1>8. CancelRefund(u, orders) = add_balances(refund, accounts[u].settled)
  BY DEF CancelRefund, quantity
<1> HIDE DEF refund
<1>9. /\ CancelRefund(u, orders) \in BalanceSheets
      /\ \A x \in Assets : CancelRefund(u, orders)[x] = refund[x] + accounts[u].settled[x]
  BY <1>6, <1>7, <1>8, AddSheets
<1>10. \A x \in Assets : LockedIn(book, history, x) \in Nat
  BY <1>1, <1>2, LocksFacts
<1>11. ASSUME NEW x \in Assets
       PROVE  refund[x] + LockedIn(bb, H, x) <= LockedIn(book, history, x)
              /\ LockedIn(bb, H, x) \in Nat
  BY <1>2, <1>5, <1>6
<1> QED BY <1>3, <1>4, <1>6, <1>9, <1>10, <1>11 DEF bb, refund, quantity

(* A cancel keeps the invariant.                                            *)
LEMMA CancelStep ==
    ASSUME IInv, NEW u \in Users, NEW orders, CancelOrders(u, orders)
    PROVE  IInv' /\ Refunded
<1> DEFINE refund == Refunds(orders, [k \in orders |-> remaining(book[k])])
           out == CancelRefund(u, orders)
           bb == [k \in DOMAIN book \ orders |-> book[k]]
<1>1. BookInv /\ FeeInv /\ MoneyInv /\ RestInv
  BY DEF IInv
<1>2. /\ Moved(wallet, vault, rewards, u, out, Nothing, Nothing, wallet', vault', rewards')
      /\ orders \subseteq {k \in DOMAIN book : book[k].owner = u}
      /\ accounts' = [accounts EXCEPT ![u].settled = Nothing, ![u].open_orders = @ \ orders]
      /\ book' = bb /\ gov' = G /\ history' = H
      /\ UNCHANGED <<now, epoch, kind, ewma, nextBid, nextAsk, fees, splits>>
  BY DEF CancelOrders, settle_balance_manager, SettleWithReferral, TransferCompletes, Moved
<1>3. AccountsOK(accounts) /\ fees \in BalanceSheets /\ vault \in BalanceSheets
      /\ rewards \in BalanceSheets /\ wallet \in [Users -> BalanceSheets]
      /\ Covered(accounts, book, history, vault)
  BY <1>1 DEF MoneyInv
<1>4. BookOK(book) /\ CountersOK(book, nextBid, nextAsk) /\ Uncrossed(book)
      /\ OpenOrders(accounts, book)
  BY <1>1 DEF BookInv
<1>5. /\ BookOK(bb) /\ EpochsKnown(bb, H)
      /\ refund \in BalanceSheets /\ out \in BalanceSheets
      /\ \A x \in Assets :
            /\ out[x] = refund[x] + accounts[u].settled[x]
            /\ LockedIn(book, history, x) \in Nat /\ LockedIn(bb, H, x) \in Nat
            /\ refund[x] + LockedIn(bb, H, x) <= LockedIn(book, history, x)
  <2>1. orders \subseteq DOMAIN book
    BY <1>2
  <2> QED BY <1>1, <2>1, CancelFacts
<1>6. /\ AccountsOK(accounts') /\ accounts'[u].settled = Nothing
      /\ \A y \in Users \ {u} : accounts'[y].settled = accounts[y].settled
      /\ OpenOrders(accounts', bb)
  <2>1. Closed(accounts, u, orders, accounts')
    BY <1>2 DEF Closed
  <2>2. orders \subseteq {k \in DOMAIN book : book[k].owner = u}
    BY <1>2
  <2> QED BY <1>3, <1>4, <2>1, <2>2, CancelAccount
<1>7. CountersOK(bb, nextBid, nextAsk) /\ Uncrossed(bb)
  <2>1. DOMAIN bb \subseteq DOMAIN book /\ \A k \in DOMAIN bb : bb[k] = book[k]
    OBVIOUS
  <2> HIDE DEF bb
  <2> QED BY <1>4, <2>1, FewerOrders
<1> HIDE DEF bb, out, refund
<1>8. BookInv'
  BY <1>2, <1>5, <1>6, <1>7 DEF BookInv
<1>9. FeeInv'
  BY <1>1, <1>2, <1>5, FeesKept
<1>10. RestInv'
  BY <1>1, <1>2, RestKept DEF RestInv, FeeInv
<1>11. PaysBack(accounts, book, history, wallet, vault, rewards, u, refund, out,
                accounts', bb, H, wallet', vault', rewards')
  <2>1. \A x \in Assets : refund[x] \in Nat
    BY <1>5 DEF BalanceSheets
  <2> QED BY <1>2, <1>3, <1>5, <1>6, <2>1 DEF PaysBack
<1>12. MoneyInv' /\ Refunded
  <2>1. /\ wallet' \in [Users -> BalanceSheets] /\ vault' \in BalanceSheets
        /\ rewards' \in BalanceSheets /\ Covered(accounts', bb, H, vault')
        /\ OwesLess(accounts, book, history, vault, accounts', bb, H, vault')
    BY <1>11, PaidBack
  <2> QED BY <1>2, <1>3, <1>6, <2>1 DEF MoneyInv, Refunded
<1> QED BY <1>8, <1>9, <1>10, <1>12 DEF IInv

(* The vault can pay the refund of any order, at the rate of its epoch.     *)
LEMMA CancelCompletesAlways == IInv => CancelNeverAborts
<1> SUFFICES ASSUME IInv, NEW k \in DOMAIN book
             PROVE  CancelCompletes(book[k].owner, {k})
  BY DEF CancelNeverAborts
<1> DEFINE u == book[k].owner
           orders == {k}
           refund == Refunds(orders, [j \in orders |-> remaining(book[j])])
           out == CancelRefund(u, orders)
           bb == [j \in DOMAIN book \ orders |-> book[j]]
<1>1. BookInv /\ FeeInv /\ MoneyInv
  BY DEF IInv
<1>2. u \in Users
  <2>1. book[k] \in Order
    BY <1>1 DEF BookInv, BookOK
  <2> QED BY <2>1, OrderFields
<1>3. {k} \subseteq accounts[u].open_orders
  BY <1>1, <1>2 DEF BookInv, OpenOrders
<1>4. \A j \in {k} : book[j].epoch \in DOMAIN H.maker_fee
  BY <1>1, UpdatedLocks DEF EpochsKnown
<1>5. /\ out \in BalanceSheets /\ refund \in BalanceSheets
      /\ \A x \in Assets :
            /\ out[x] = refund[x] + accounts[u].settled[x]
            /\ LockedIn(book, history, x) \in Nat /\ LockedIn(bb, H, x) \in Nat
            /\ refund[x] + LockedIn(bb, H, x) <= LockedIn(book, history, x)
  <2>1. orders \subseteq DOMAIN book
    OBVIOUS
  <2> HIDE DEF u, orders
  <2> QED BY <1>1, <1>2, <2>1, CancelFacts
<1>6. ASSUME NEW x \in Assets
      PROVE  out[x] <= vault[x] + Nothing[x] /\ Nothing[x] <= wallet[u][x] + out[x]
  <2> DEFINE f == SettledOf(accounts, x)
             s == SettledIn(accounts, x)
             mine == accounts[u].settled[x]
             lb == LockedIn(book, history, x)
             lbb == LockedIn(bb, H, x)
             back == refund[x]
             o == out[x]
             vx == vault[x]
             wx == wallet[u][x]
  <2>1. /\ AccountsOK(accounts) /\ vault \in BalanceSheets /\ wallet \in [Users -> BalanceSheets]
        /\ Covered(accounts, book, history, vault)
    BY <1>1 DEF MoneyInv
  <2>2. mine <= s /\ mine \in Nat /\ s \in Nat
    <3>1. \A i \in 1..N : f[i] \in Nat
      BY <2>1, SettledFacts
    <3>2. f[u] = mine /\ u \in 1..N /\ N \in Nat
      BY <1>2, PoolAssumption DEF SettledOf, Users
    <3>3. s = Total(f, N) /\ s \in Nat
      BY <2>1, SettledFacts DEF SettledIn
    <3> HIDE DEF f, u
    <3>4. f[u] <= Total(f, N)
      BY <3>1, <3>2, TotalElement
    <3> QED BY <3>1, <3>2, <3>3, <3>4
  <2>3. s + lb <= vx
    BY <2>1 DEF Covered
  <2>4. o = back + mine /\ lb \in Nat /\ lbb \in Nat /\ back + lbb <= lb
    BY <1>5
  <2>5. back \in Nat /\ vx \in Nat /\ wx \in Nat /\ Nothing[x] = 0
    BY <1>2, <1>5, <2>1, NothingSheet DEF BalanceSheets
  <2> HIDE DEF s, mine, lb, lbb, back, o, vx, wx
  <2>6. o <= vx + 0 /\ 0 <= wx + o
    BY <2>2, <2>3, <2>4, <2>5
  <2> QED BY <2>5, <2>6 DEF o, vx, wx
<1> QED BY <1>3, <1>4, <1>6 DEF CancelCompletes, TransferCompletes

(* A smaller order locks no more than the larger one without the refund.    *)
Shrunk(b, k, nq, c) ==
    /\ DOMAIN c = DOMAIN b /\ c[k] = [b[k] EXCEPT !.quantity = nq]
    /\ c \in [DOMAIN c -> Order]
    /\ \A j \in DOMAIN b \ {k} : c[j] = b[j]

(* The book after modify_order.                                             *)
LEMMA ShrunkBook ==
    ASSUME NEW b, BookOK(b), NEW k \in DOMAIN b, NEW nq \in Nat,
           NEW c, c = [b EXCEPT ![k].quantity = nq]
    PROVE  Shrunk(b, k, nq, c)
<1> DEFINE o == [b[k] EXCEPT !.quantity = nq]
<1>1. b[k] \in Order /\ b \in [DOMAIN b -> Order]
  BY DEF BookOK
<1>2. o \in Order
  BY <1>1 DEF Order
<1>3. c = [b EXCEPT ![k] = o]
  BY <1>1
<1> HIDE DEF o
<1>4. DOMAIN c = DOMAIN b /\ c[k] = o /\ c \in [DOMAIN c -> Order]
      /\ \A j \in DOMAIN b \ {k} : c[j] = b[j]
  BY <1>1, <1>2, <1>3
<1> QED BY <1>4 DEF Shrunk, o

Modified(b, h, k, nq, c) ==
    LET quantity == [j \in {k} |-> b[j].quantity - nq]
    IN  /\ BookOK(c) /\ RatesOK(c, h)
        /\ \A j \in DOMAIN c : /\ c[j].is_bid = b[j].is_bid /\ c[j].seq = b[j].seq
                               /\ c[j].price = b[j].price /\ c[j].epoch = b[j].epoch
                               /\ c[j].owner = b[j].owner
        /\ \A j \in {k} : quantity[j] \in Nat
        /\ \A x \in Assets : \A j \in 1..MaxOrders :
              RefundsOf(b, h, {k}, quantity, x)[j] + Locks(c, h, x)[j]
                <= Locks(b, h, x)[j]

(* It is a book, and the refund is part of what the order locked.           *)
LEMMA ModifyBook ==
    ASSUME NEW b, BookOK(b), NEW h, RatesOK(b, h), NEW k \in DOMAIN b, NEW nq \in Nat,
           b[k].filled < nq, nq < b[k].quantity, NEW c, Shrunk(b, k, nq, c)
    PROVE  Modified(b, h, k, nq, c)
<1> DEFINE quantity == [j \in {k} |-> b[j].quantity - nq]
           o == b[k]
           p == c[k]
<1>1. /\ DOMAIN c = DOMAIN b /\ p = [o EXCEPT !.quantity = nq]
      /\ c \in [DOMAIN c -> Order]
      /\ \A j \in DOMAIN b \ {k} : c[j] = b[j]
  BY DEF Shrunk
<1>2. o \in Order /\ DOMAIN b \subseteq 1..MaxOrders
  BY DEF BookOK
<1> HIDE DEF o, p
<1>3. /\ p.is_bid = o.is_bid /\ p.seq = o.seq /\ p.price = o.price /\ p.epoch = o.epoch
      /\ p.owner = o.owner /\ p.filled = o.filled /\ p.quantity = nq
      /\ p.deep_price = o.deep_price
  BY <1>1, <1>2 DEF Order
<1>4. \A j \in DOMAIN c : /\ c[j].is_bid = b[j].is_bid /\ c[j].seq = b[j].seq
                          /\ c[j].price = b[j].price /\ c[j].epoch = b[j].epoch
                          /\ c[j].owner = b[j].owner
  BY <1>1, <1>3 DEF o, p
<1>5. BookOK(c)
  <2>1. \A j \in DOMAIN c : c[j].filled < c[j].quantity
    BY <1>1, <1>3 DEF o, p, BookOK
  <2>2. \A j \in DOMAIN c : c[j].price <= MaxPrice /\ c[j].seq <= MaxOrders + 1
    BY <1>1, <1>4 DEF BookOK
  <2>3. \A i, j \in DOMAIN c :
          c[i].is_bid = c[j].is_bid /\ i < j =>
             IF c[j].is_bid THEN c[j].seq < c[i].seq ELSE c[i].seq < c[j].seq
    BY <1>1, <1>4 DEF BookOK
  <2> QED BY <1>1, <1>2, <2>1, <2>2, <2>3 DEF BookOK
<1>6. RatesOK(c, h)
  BY <1>1, <1>4 DEF RatesOK
<1>7. /\ o.quantity \in Nat /\ o.filled \in Nat /\ o.price \in Nat /\ o.is_bid \in BOOLEAN
      /\ o.deep_price \in OrderDeepPrice
  BY <1>2, OrderFields
<1>8. quantity[k] = o.quantity - nq /\ o.quantity - nq \in Nat
      /\ remaining(p) = nq - o.filled /\ nq - o.filled \in Nat
      /\ remaining(o) = o.quantity - o.filled /\ remaining(o) \in Nat
      /\ (o.quantity - nq) + (nq - o.filled) = remaining(o)
  <2>1. o.filled < nq /\ nq < o.quantity
    BY DEF o
  <2>2. quantity[k] = o.quantity - nq
    BY DEF o
  <2> HIDE DEF quantity
  <2> QED BY <1>3, <1>7, <2>1, <2>2 DEF remaining
<1>9. ASSUME NEW x \in Assets, NEW j \in 1..MaxOrders
      PROVE  RefundsOf(b, h, {k}, quantity, x)[j] + Locks(c, h, x)[j] <= Locks(b, h, x)[j]
  <2> DEFINE rate == historic_maker_fee(h, o.epoch)
             back == LockedFor(o, o.quantity - nq, rate)[x]
             left == LockedFor(o, nq - o.filled, rate)[x]
             whole == LockedFor(o, remaining(o), rate)[x]
  <2>1. Locks(b, h, x)[j] \in Nat
    BY LocksFacts
  <2>2. CASE j # k
    <3>1. RefundsOf(b, h, {k}, quantity, x)[j] = 0
      BY <2>2 DEF RefundsOf
    <3>2. Locks(c, h, x)[j] = Locks(b, h, x)[j]
      BY <1>1, <2>2 DEF Locks
    <3> QED BY <2>1, <3>1, <3>2
  <2>3. CASE j = k
    <3>1. rate \in Nat
      BY DEF RatesOK, o
    <3>2. back + left <= whole
      <4> HIDE DEF rate
      <4> QED BY <1>7, <1>8, <3>1, LockedParts
    <3>3. RefundsOf(b, h, {k}, quantity, x)[j] = back
      <4> HIDE DEF quantity
      <4> QED BY <1>2, <1>8, <2>3 DEF RefundsOf, o
    <3>4. Locks(b, h, x)[j] = whole
      BY <1>2, <2>3 DEF Locks, locked_balance, o
    <3>5. Locks(c, h, x)[j] = left
      <4>1. Locks(c, h, x)[j] = LockedFor(p, remaining(p), historic_maker_fee(h, p.epoch))[x]
        BY <1>1, <2>3 DEF Locks, locked_balance, p
      <4>2. LockedFor(p, remaining(p), historic_maker_fee(h, p.epoch))[x] = left
        BY <1>3, <1>8 DEF LockedFor, FeeOf
      <4> QED BY <4>1, <4>2
    <3> QED BY <3>2, <3>3, <3>4, <3>5
  <2> QED BY <2>2, <2>3
<1>10. \A j \in {k} : quantity[j] \in Nat
  BY <1>8
<1> QED BY <1>4, <1>5, <1>6, <1>9, <1>10 DEF Modified

(* A modification keeps the invariant.                                      *)
LEMMA ModifyStep ==
    ASSUME IInv, NEW u \in Users, NEW k \in DOMAIN book, NEW nq \in Nat,
           ModifyOrder(u, k, nq)
    PROVE  IInv' /\ Refunded
<1> DEFINE quantity == [j \in {k} |-> book[j].quantity - nq]
           refund == Refunds({k}, quantity)
           out == add_balances(refund, accounts[u].settled)
<1>1. BookInv /\ FeeInv /\ MoneyInv /\ RestInv
  BY DEF IInv
<1>2. /\ Moved(wallet, vault, rewards, u, out, Nothing, Nothing, wallet', vault', rewards')
      /\ book[k].filled < nq /\ nq < book[k].quantity
      /\ accounts' = [accounts EXCEPT ![u].settled = Nothing]
      /\ book' = [book EXCEPT ![k].quantity = nq] /\ gov' = G /\ history' = H
      /\ splits' = splits + 1
      /\ UNCHANGED <<now, epoch, kind, ewma, nextBid, nextAsk, fees>>
  BY DEF ModifyOrder, settle_balance_manager, SettleWithReferral, TransferCompletes, Moved
<1>3. AccountsOK(accounts) /\ fees \in BalanceSheets /\ vault \in BalanceSheets
      /\ rewards \in BalanceSheets /\ wallet \in [Users -> BalanceSheets]
      /\ Covered(accounts, book, history, vault)
  BY <1>1 DEF MoneyInv
<1>4. BookOK(book) /\ CountersOK(book, nextBid, nextAsk) /\ Uncrossed(book)
      /\ OpenOrders(accounts, book)
  BY <1>1 DEF BookInv
<1>5. /\ RatesOK(book, H) /\ EpochsKnown(book, H)
      /\ \A x \in Assets : LockedIn(book, H, x) = LockedIn(book, history, x)
  BY <1>1, UpdatedLocks
<1>6. Shrunk(book, k, nq, book')
  BY <1>2, <1>4, ShrunkBook
<1>7. /\ BookOK(book') /\ RatesOK(book', H)
      /\ \A j \in DOMAIN book' :
            /\ book'[j].is_bid = book[j].is_bid /\ book'[j].seq = book[j].seq
            /\ book'[j].price = book[j].price /\ book'[j].epoch = book[j].epoch
            /\ book'[j].owner = book[j].owner
      /\ \A j \in {k} : quantity[j] \in Nat
      /\ \A x \in Assets : \A j \in 1..MaxOrders :
            RefundsOf(book, H, {k}, quantity, x)[j] + Locks(book', H, x)[j]
              <= Locks(book, H, x)[j]
  <2>1. Modified(book, H, k, nq, book')
    BY <1>2, <1>4, <1>5, <1>6, ModifyBook
  <2> QED BY <2>1 DEF Modified
<1>8. DOMAIN book' = DOMAIN book
  BY <1>6 DEF Shrunk
<1> HIDE DEF quantity
<1>9. ASSUME NEW x \in Assets
      PROVE  LET r == Total(RefundsOf(book, H, {k}, quantity, x), MaxOrders)
             IN  /\ r \in Nat /\ r + LockedIn(book', H, x) <= LockedIn(book, H, x)
                 /\ LockedIn(book', H, x) \in Nat
  <2>1. {k} \subseteq DOMAIN book
    OBVIOUS
  <2> QED BY <1>4, <1>5, <1>7, <2>1, RefundsCovered
<1>10. /\ refund \in BalanceSheets
       /\ \A x \in Assets : refund[x] = Total(RefundsOf(book, H, {k}, quantity, x), MaxOrders)
  BY <1>9, RefundSheet
<1>11. accounts[u].settled \in BalanceSheets
  BY <1>3 DEF AccountsOK
<1> HIDE DEF refund
<1>12. out \in BalanceSheets /\ \A x \in Assets : out[x] = refund[x] + accounts[u].settled[x]
  BY <1>10, <1>11, AddSheets
<1> HIDE DEF out
<1>13. /\ AccountsOK(accounts') /\ accounts'[u].settled = Nothing
       /\ \A y \in Users \ {u} : accounts'[y] = accounts[y]
       /\ \A y \in Users : accounts'[y].open_orders = accounts[y].open_orders
  BY <1>2, <1>3, NothingSheet DEF AccountsOK
<1>14. CountersOK(book', nextBid, nextAsk) /\ Uncrossed(book')
  BY <1>4, <1>7, <1>8, FewerOrders
<1>15. OpenOrders(accounts', book')
  <2>1. \A y \in Users : {j \in DOMAIN book' : book'[j].owner = y}
                           = {j \in DOMAIN book : book[j].owner = y}
    BY <1>7, <1>8
  <2> QED BY <1>4, <1>13, <2>1 DEF OpenOrders
<1>16. BookInv'
  BY <1>2, <1>7, <1>14, <1>15 DEF BookInv
<1>17. FeeInv'
  <2>1. EpochsKnown(book', H)
    BY <1>5, <1>7, <1>8 DEF EpochsKnown
  <2> QED BY <1>1, <1>2, <2>1, FeesKept
<1>18. RestInv'
  <2>1. splits' \in Nat /\ now' \in Nat
    BY <1>1, <1>2 DEF RestInv
  <2> QED BY <1>1, <1>2, <2>1, RestKept DEF FeeInv
<1>19. PaysBack(accounts, book, history, wallet, vault, rewards, u, refund, out,
                accounts', book', H, wallet', vault', rewards')
  <2>1. \A x \in Assets : refund[x] \in Nat
    BY <1>10 DEF BalanceSheets
  <2>2. \A x \in Assets : LockedIn(book, history, x) \in Nat
    BY <1>4, <1>5, LocksFacts
  <2>3. ASSUME NEW x \in Assets
        PROVE  /\ LockedIn(book', H, x) \in Nat
               /\ refund[x] + LockedIn(book', H, x) <= LockedIn(book, history, x)
    BY <1>5, <1>9, <1>10
  <2> QED BY <1>2, <1>3, <1>12, <1>13, <2>1, <2>2, <2>3 DEF PaysBack
<1>20. MoneyInv' /\ Refunded
  <2>1. /\ wallet' \in [Users -> BalanceSheets] /\ vault' \in BalanceSheets
        /\ rewards' \in BalanceSheets /\ Covered(accounts', book', H, vault')
        /\ OwesLess(accounts, book, history, vault, accounts', book', H, vault')
    BY <1>19, PaidBack
  <2> QED BY <1>2, <1>3, <1>13, <2>1 DEF MoneyInv, Refunded
<1> QED BY <1>16, <1>17, <1>18, <1>20 DEF IInv

-----------------------------------------------------------------------------
(* The book after an order is placed (create_order). *)

(* A match that ended as MatchResult says, and the counters of the sides    *)
(* after get_order_id.                                                      *)
MatchDone(b, t, m) == Matched(b, t, m) /\ (Len(m.fills) < MaxFills => ~ can_match(t, m))

BidAfter(t, bid) == IF t.is_bid THEN bid - 1 ELSE bid

AskAfter(t, ask) == IF t.is_bid THEN ask ELSE ask + 1

(* Matching alone keeps the book in order.                                  *)
LEMMA MatchedInOrder ==
    ASSUME NEW b, BookOK(b), NEW bid, NEW ask, CountersOK(b, bid, ask), Uncrossed(b),
           NEW t, TakerOK(t), NEW m, Matched(b, t, m),
           (MaxOrders + 1 - bid) + (ask - 1) < MaxOrders
    PROVE  /\ BookOK(m.book) /\ Uncrossed(m.book) /\ CountersOK(m.book, bid, ask)
           /\ CountersOK(m.book, BidAfter(t, bid), AskAfter(t, ask))
<1>1. BookMatched(b, t, m)
  BY DEF Matched
<1>2. BookOK(m.book)
  BY <1>1, MatchedBook
<1>3. DOMAIN m.book \subseteq DOMAIN b
  BY <1>1 DEF BookMatched
<1>4. \A k \in DOMAIN m.book : /\ m.book[k].is_bid = b[k].is_bid /\ m.book[k].seq = b[k].seq
                               /\ m.book[k].price = b[k].price
  <2> TAKE k \in DOMAIN m.book
  <2>1. m.book[k] = [b[k] EXCEPT !.filled = m.book[k].filled] /\ b[k] \in Order
    BY <1>1, <1>3 DEF BookMatched, BookOK
  <2> QED BY <2>1 DEF Order
<1>5. CountersOK(m.book, bid, ask) /\ Uncrossed(m.book)
  BY <1>3, <1>4, FewerOrders
<1> DEFINE c == m.book
           n == BidAfter(t, bid)
           l == AskAfter(t, ask)
<1>6. /\ bid \in Nat /\ ask \in Nat /\ 1 <= bid /\ 1 <= ask /\ MaxOrders \in Nat
      /\ bid <= MaxOrders + 1 /\ t.is_bid \in BOOLEAN
  BY <1>5, PoolAssumption DEF CountersOK, TakerOK
<1>7. /\ n \in Nat /\ l \in Nat /\ 1 <= n /\ 1 <= l /\ n <= bid /\ ask <= l
      /\ (MaxOrders + 1 - n) + (l - 1) = (MaxOrders + 1 - bid) + (ask - 1) + 1
  BY <1>6 DEF BidAfter, AskAfter
<1> HIDE DEF n, l
<1>8. ASSUME NEW k \in DOMAIN c
      PROVE  /\ k <= (MaxOrders + 1 - n) + (l - 1)
             /\ IF c[k].is_bid THEN n <= c[k].seq ELSE c[k].seq <= l
  <2>1. /\ k <= (MaxOrders + 1 - bid) + (ask - 1)
        /\ IF c[k].is_bid THEN bid <= c[k].seq ELSE c[k].seq <= ask
    BY <1>5 DEF CountersOK
  <2>2. c[k].seq \in Nat /\ k \in Nat
    <3>1. c[k] \in Order /\ k \in 1..MaxOrders
      BY <1>2 DEF BookOK
    <3> QED BY <3>1, OrderFields
  <2> QED BY <1>6, <1>7, <2>1, <2>2
<1>9. CountersOK(c, n, l)
  <2> HIDE DEF c
  <2> QED BY <1>6, <1>7, <1>8 DEF CountersOK
<1> QED BY <1>2, <1>5, <1>9 DEF n, l

(* What an order that is to rest did not take, it does not cross: the scan  *)
(* ended before the limit on fills, because nothing was left to match.      *)
LEMMA NothingLeftToCross ==
    ASSUME NEW b, BookOK(b), NEW t, TakerOK(t), NEW m, MatchDone(b, t, m), Rests(t, m),
           NEW j \in DOMAIN m.book, m.book[j].is_bid = ~ t.is_bid
    PROVE  ~ Crosses(t, m.book[j].price)
<1>1. /\ BookMatched(b, t, m) /\ m.executed < t.quantity /\ ~ can_match(t, m)
      /\ m.executed \in Nat /\ t.quantity \in Nat /\ t.is_bid \in BOOLEAN
  BY DEF MatchDone, Matched, Rests, TakerOK
<1>2. /\ DOMAIN m.book \subseteq DOMAIN b /\ m.ahead \subseteq Opposite(b, t)
      /\ \A k \in Passed(b, t, m) : k \notin DOMAIN m.book
      /\ \A k \in DOMAIN b \ Passed(b, t, m) : k \in DOMAIN m.book /\ m.book[k] = b[k]
  BY <1>1 DEF BookMatched
<1>3. j \in m.ahead /\ m.book[j] = b[j]
  <2>1. j \in DOMAIN b \ Passed(b, t, m)
    BY <1>2
  <2>2. m.book[j] = b[j]
    BY <1>2, <2>1
  <2>3. j \in Opposite(b, t)
    BY <2>1, <2>2 DEF Opposite, Side
  <2> QED BY <2>1, <2>2, <2>3 DEF Passed
<1> DEFINE k == First(m.book, m.ahead)
<1>4. BookOK(m.book)
  BY <1>1, MatchedBook
<1>5. /\ m.ahead \subseteq DOMAIN m.book /\ m.ahead # {}
      /\ \A i \in m.ahead : m.book[i].is_bid = ~ t.is_bid
  <2>1. \A i \in m.ahead : i \in DOMAIN b /\ b[i].is_bid = ~ t.is_bid /\ i \notin Passed(b, t, m)
    BY <1>2 DEF Opposite, Side, Passed
  <2> QED BY <1>2, <1>3, <2>1
<1>6. k \in m.ahead /\ \A i \in m.ahead \ {k} : Ahead(m.book[k], m.book[i])
  <2>1. (~ t.is_bid) \in BOOLEAN
    BY <1>1
  <2> QED BY <1>4, <1>5, <2>1, FirstExists
<1>7. ~ Crosses(t, m.book[k].price)
  BY <1>1, <1>5 DEF can_match
<1> HIDE DEF k
<1>8. /\ m.book[k].price \in Nat /\ m.book[j].price \in Nat
      /\ m.book[k].seq \in Nat /\ m.book[j].seq \in Nat
  <2>1. m.book[k] \in Order /\ m.book[j] \in Order
    BY <1>4, <1>5, <1>6 DEF BookOK
  <2> QED BY <2>1, OrderFields
<1>9. CASE j = k
  BY <1>7, <1>9
<1>10. CASE j # k
  <2>1. Ahead(m.book[k], m.book[j]) /\ m.book[k].is_bid = ~ t.is_bid
    BY <1>3, <1>5, <1>6, <1>10
  <2>2. t.price \in Nat
    BY DEF TakerOK
  <2>3. CASE t.is_bid
    <3>0. ~ m.book[k].is_bid
      BY <2>1, <2>3
    <3>1. m.book[k].price <= m.book[j].price
      BY <1>8, <2>1, <3>0 DEF Ahead, SmallerId
    <3> QED BY <1>7, <1>8, <2>2, <2>3, <3>1 DEF Crosses
  <2>4. CASE ~ t.is_bid
    <3>0. m.book[k].is_bid
      BY <2>1, <2>4
    <3>1. m.book[j].price <= m.book[k].price
      BY <1>8, <2>1, <3>0 DEF Ahead, SmallerId
    <3> QED BY <1>7, <1>8, <2>2, <2>4, <3>1 DEF Crosses
  <2> QED BY <2>3, <2>4
<1> QED BY <1>9, <1>10

(* The order as it rests (inject_limit_order).                              *)
Injected(t, m, bid, ask, k, o) ==
    /\ o \in Order /\ o.owner = t.owner /\ o.is_bid = t.is_bid /\ o.price = t.price
    /\ o.price <= MaxPrice /\ o.filled < o.quantity
    /\ o.seq = IF t.is_bid THEN bid - 1 ELSE ask + 1
    /\ k = (MaxOrders + 1 - bid) + (ask - 1) + 1

(* A book with a new order in it is in order.                               *)
LEMMA InjectedInOrder ==
    ASSUME NEW b, BookOK(b), NEW bid, NEW ask, CountersOK(b, bid, ask), Uncrossed(b),
           NEW t, TakerOK(t), NEW m, MatchDone(b, t, m), Rests(t, m),
           (MaxOrders + 1 - bid) + (ask - 1) < MaxOrders,
           NEW k, NEW o, Injected(t, m, bid, ask, k, o), NEW c, c = With(m.book, k, o)
    PROVE  /\ BookOK(c) /\ CountersOK(c, BidAfter(t, bid), AskAfter(t, ask)) /\ Uncrossed(c)
           /\ k \in 1..MaxOrders /\ k \notin DOMAIN b
<1> DEFINE a == m.book
           n == BidAfter(t, bid)
           l == AskAfter(t, ask)
<1>1. Matched(b, t, m)
  BY DEF MatchDone
<1>2. BookOK(a) /\ Uncrossed(a) /\ CountersOK(a, bid, ask) /\ CountersOK(a, n, l)
  BY <1>1, MatchedInOrder
<1>3. /\ o \in Order /\ o.owner = t.owner /\ o.is_bid = t.is_bid /\ o.price = t.price
      /\ o.price <= MaxPrice /\ o.filled < o.quantity
      /\ o.seq = IF t.is_bid THEN bid - 1 ELSE ask + 1
      /\ k = (MaxOrders + 1 - bid) + (ask - 1) + 1
  BY DEF Injected
<1>4. /\ bid \in Nat /\ ask \in Nat /\ 1 <= bid /\ 1 <= ask /\ bid <= MaxOrders + 1
      /\ MaxOrders \in Nat /\ t.is_bid \in BOOLEAN
  BY <1>2, PoolAssumption DEF CountersOK, TakerOK
<1>5. k \in 1..MaxOrders /\ o.seq <= MaxOrders + 1 /\ o.seq \in Nat
      /\ o.seq = (IF t.is_bid THEN n ELSE l) /\ k = (MaxOrders + 1 - n) + (l - 1)
  BY <1>3, <1>4 DEF BidAfter, AskAfter
<1>6. k \notin DOMAIN b /\ k \notin DOMAIN a /\ \A j \in DOMAIN a : j < k /\ j \in 1..MaxOrders
  <2>1. \A j \in DOMAIN b : j <= (MaxOrders + 1 - bid) + (ask - 1) /\ j \in 1..MaxOrders
    BY DEF CountersOK, BookOK
  <2>2. \A j \in DOMAIN a : j <= (MaxOrders + 1 - bid) + (ask - 1) /\ j \in 1..MaxOrders
    BY <1>2 DEF CountersOK, BookOK
  <2> QED BY <1>3, <1>4, <2>1, <2>2
<1> HIDE DEF a, n, l
<1>7. /\ DOMAIN c = DOMAIN a \cup {k} /\ c[k] = o
      /\ \A j \in DOMAIN a : c[j] = a[j] /\ j # k
      /\ c = [j \in DOMAIN c |-> c[j]]
  BY <1>6 DEF With, a
<1>8. \A j \in DOMAIN a : /\ a[j] \in Order /\ a[j].filled < a[j].quantity
                          /\ a[j].price <= MaxPrice /\ a[j].seq <= MaxOrders + 1
                          /\ a[j].seq \in Nat /\ a[j].price \in Nat /\ a[j].is_bid \in BOOLEAN
                          /\ IF a[j].is_bid THEN bid <= a[j].seq ELSE a[j].seq <= ask
  <2>1. \A j \in DOMAIN a : /\ a[j] \in Order /\ a[j].filled < a[j].quantity
                            /\ a[j].price <= MaxPrice /\ a[j].seq <= MaxOrders + 1
                            /\ IF a[j].is_bid THEN bid <= a[j].seq ELSE a[j].seq <= ask
    BY <1>2 DEF BookOK, CountersOK
  <2> QED BY <2>1, OrderFields
<1>9. BookOK(c)
  <2>1. \A j \in DOMAIN c : c[j] \in Order
    BY <1>3, <1>7, <1>8
  <2>2. c \in [DOMAIN c -> Order]
    BY <1>7, <2>1
  <2>3. \A j \in DOMAIN c : /\ c[j].filled < c[j].quantity
                            /\ c[j].price <= MaxPrice /\ c[j].seq <= MaxOrders + 1
    BY <1>3, <1>5, <1>7, <1>8
  <2>4. ASSUME NEW i \in DOMAIN c, NEW j \in DOMAIN c, c[i].is_bid = c[j].is_bid, i < j
        PROVE  IF c[j].is_bid THEN c[j].seq < c[i].seq ELSE c[i].seq < c[j].seq
    <3>1. i \in DOMAIN a
      BY <1>5, <1>6, <1>7, <2>4
    <3>2. CASE j = k
      <4>1. c[j] = o /\ c[i] = a[i] /\ a[i].is_bid = t.is_bid
        BY <1>3, <1>7, <2>4, <3>1, <3>2
      <4>2. a[i].seq \in Nat /\ IF t.is_bid THEN bid <= a[i].seq ELSE a[i].seq <= ask
        BY <1>8, <3>1, <4>1
      <4> QED BY <1>3, <1>4, <4>1, <4>2
    <3>3. CASE j # k
      <4>1. j \in DOMAIN a /\ c[j] = a[j] /\ c[i] = a[i]
        BY <1>7, <3>1, <3>3
      <4> QED BY <1>2, <2>4, <3>1, <4>1 DEF BookOK
    <3> QED BY <3>2, <3>3
  <2>5. DOMAIN c \subseteq 1..MaxOrders
    BY <1>5, <1>6, <1>7
  <2> QED BY <2>2, <2>3, <2>4, <2>5 DEF BookOK
<1>10. CountersOK(c, n, l)
  <2>1. /\ n \in Nat /\ l \in Nat /\ 1 <= n /\ 1 <= l
        /\ n <= MaxOrders + 1 /\ (MaxOrders + 1 - n) + (l - 1) <= MaxOrders
        /\ \A j \in DOMAIN a :
              /\ j <= (MaxOrders + 1 - n) + (l - 1)
              /\ IF a[j].is_bid THEN n <= a[j].seq ELSE a[j].seq <= l
    BY <1>2 DEF CountersOK
  <2>2. ASSUME NEW j \in DOMAIN c
        PROVE  /\ j <= (MaxOrders + 1 - n) + (l - 1)
               /\ IF c[j].is_bid THEN n <= c[j].seq ELSE c[j].seq <= l
    <3>1. CASE j = k
      <4>1. c[j] = o /\ o.is_bid = t.is_bid
        BY <1>3, <1>7, <3>1
      <4> QED BY <1>4, <1>5, <2>1, <3>1, <4>1
    <3>2. CASE j # k
      BY <1>7, <2>1, <3>2
    <3> QED BY <3>1, <3>2
  <2> QED BY <2>1, <2>2 DEF CountersOK
<1>11. Uncrossed(c)
  <2> SUFFICES ASSUME NEW i \in Side(c, TRUE), NEW j \in Side(c, FALSE)
               PROVE  c[i].price < c[j].price
    BY DEF Uncrossed
  <2>1. i \in DOMAIN c /\ j \in DOMAIN c /\ c[i].is_bid = TRUE /\ c[j].is_bid = FALSE
    BY DEF Side
  <2>2. i # j
    BY <2>1
  <2>3. CASE i # k /\ j # k
    <3>1. i \in DOMAIN a /\ j \in DOMAIN a /\ c[i] = a[i] /\ c[j] = a[j]
      BY <1>7, <2>1, <2>3
    <3> QED BY <1>2, <2>1, <3>1 DEF Uncrossed, Side
  <2>4. CASE i = k
    <3>1. j \in DOMAIN a /\ c[j] = a[j] /\ c[i] = o /\ t.is_bid /\ o.price = t.price
      BY <1>3, <1>7, <2>1, <2>2, <2>4
    <3>2. ~ Crosses(t, a[j].price)
      <4>1. j \in DOMAIN m.book /\ m.book[j].is_bid = ~ t.is_bid
        BY <2>1, <3>1 DEF a
      <4> QED BY <4>1, NothingLeftToCross DEF a
    <3>3. a[j].price \in Nat /\ t.price \in Nat
      BY <1>8, <3>1 DEF TakerOK
    <3> QED BY <3>1, <3>2, <3>3 DEF Crosses
  <2>5. CASE j = k
    <3>1. i \in DOMAIN a /\ c[i] = a[i] /\ c[j] = o /\ t.is_bid = FALSE /\ o.price = t.price
      BY <1>3, <1>7, <2>1, <2>2, <2>5
    <3>2. ~ Crosses(t, a[i].price)
      <4>1. i \in DOMAIN m.book /\ m.book[i].is_bid = ~ t.is_bid
        BY <2>1, <3>1 DEF a
      <4> QED BY <4>1, NothingLeftToCross DEF a
    <3>3. a[i].price \in Nat /\ t.price \in Nat
      BY <1>8, <3>1 DEF TakerOK
    <3> QED BY <3>1, <3>2, <3>3 DEF Crosses
  <2> QED BY <2>3, <2>4, <2>5
<1> QED BY <1>5, <1>6, <1>9, <1>10, <1>11 DEF n, l

-----------------------------------------------------------------------------
(* The accounts after an order is placed (process_create). *)

(* The fills take the same orders off the book and off the accounts.        *)
LEMMA FilledAccounts ==
    ASSUME NEW b, BookOK(b), NEW z, AccountsOK(z.accounts), OpenOrders(z.accounts, b),
           NEW t, NEW m, BookMatched(b, t, m), FillsMatched(b, m),
           NEW h, NEW s, Processed(h, z, m.fills, Len(m.fills), s)
    PROVE  OpenOrders(s.accounts, m.book)
<1> SUFFICES ASSUME NEW u \in Users
             PROVE  /\ s.accounts[u].open_orders = {k \in DOMAIN m.book : m.book[k].owner = u}
                    /\ Cardinality(s.accounts[u].open_orders) <= MaxOpenOrders
  BY DEF OpenOrders
<1> DEFINE old == z.accounts[u].open_orders
           open == s.accounts[u].open_orders
           S == {j \in 1..Len(m.fills) : Gone(m.fills[j]) /\ m.fills[j].maker.owner = u}
<1>1. old = {k \in DOMAIN b : b[k].owner = u} /\ Cardinality(old) <= MaxOpenOrders
  BY DEF OpenOrders
<1>2. open = old \ {m.fills[j].arrival : j \in S}
  BY DEF Processed
<1>3. DOMAIN m.book \subseteq DOMAIN b
      /\ \A k \in DOMAIN m.book : m.book[k].owner = b[k].owner
  <2>1. DOMAIN m.book \subseteq DOMAIN b
    BY DEF BookMatched
  <2>2. ASSUME NEW k \in DOMAIN m.book
        PROVE  m.book[k].owner = b[k].owner
    <3>1. m.book[k] = [b[k] EXCEPT !.filled = m.book[k].filled] /\ b[k] \in Order
      BY <2>1 DEF BookMatched, BookOK
    <3> QED BY <3>1 DEF Order
  <2> QED BY <2>1, <2>2
<1>4. /\ \A j \in S : m.fills[j].arrival \notin DOMAIN m.book
      /\ \A k \in DOMAIN b \ DOMAIN m.book :
            b[k].owner = u => \E j \in S : m.fills[j].arrival = k
  <2>1. /\ \A i \in 1..Len(m.fills) :
              /\ m.fills[i].arrival \in DOMAIN b /\ m.fills[i].maker = b[m.fills[i].arrival]
              /\ Gone(m.fills[i]) => m.fills[i].arrival \notin DOMAIN m.book
        /\ \A k \in DOMAIN b \ DOMAIN m.book :
              \E i \in 1..Len(m.fills) : Gone(m.fills[i]) /\ m.fills[i].arrival = k
    BY DEF FillsMatched
  <2>2. ASSUME NEW k \in DOMAIN b \ DOMAIN m.book, b[k].owner = u
        PROVE  \E j \in S : m.fills[j].arrival = k
    <3>1. PICK i \in 1..Len(m.fills) : Gone(m.fills[i]) /\ m.fills[i].arrival = k
      BY <2>1
    <3>2. m.fills[i].maker.owner = u
      BY <2>1, <2>2, <3>1
    <3> QED BY <3>1, <3>2
  <2> QED BY <2>1, <2>2
<1>5. open = {k \in DOMAIN m.book : m.book[k].owner = u}
  <2> HIDE DEF S, old, open
  <2>1. ASSUME NEW k \in open
        PROVE  k \in DOMAIN m.book /\ m.book[k].owner = u
    <3>1. k \in DOMAIN b /\ b[k].owner = u /\ ~ \E j \in S : m.fills[j].arrival = k
      BY <1>1, <1>2
    <3> QED BY <1>3, <1>4, <3>1
  <2>2. ASSUME NEW k \in DOMAIN m.book, m.book[k].owner = u
        PROVE  k \in open
    <3>1. k \in old
      BY <1>1, <1>3, <2>2
    <3>2. \A j \in S : m.fills[j].arrival # k
      BY <1>4
    <3> QED BY <1>2, <3>1, <3>2
  <2> QED BY <2>1, <2>2
<1>6. Cardinality(open) <= MaxOpenOrders
  <2>1. old \subseteq 1..MaxOrders /\ open \subseteq old
    BY <1>2 DEF AccountsOK
  <2> HIDE DEF old, open
  <2>2. /\ Cardinality(open) <= Cardinality(old)
        /\ Cardinality(open) \in Nat /\ Cardinality(old) \in Nat
    BY <2>1, FewOrders
  <2> QED BY <1>1, <2>2, PoolAssumption
<1> QED BY <1>5, <1>6

(* The account of the taker: all is settled, and an order that rests is     *)
(* one more open order.                                                     *)
Opened(a, u, rests, k, c) ==
    c = [a EXCEPT ![u].settled = Nothing,
                  ![u].open_orders = IF rests THEN @ \cup {k} ELSE @]

(* The open orders are then those of the book with the order in it.         *)
LEMMA OpenedAccount ==
    ASSUME NEW a, AccountsOK(a), NEW b, OpenOrders(a, b), NEW u \in Users,
           NEW rests \in BOOLEAN, NEW k \in 1..MaxOrders, k \notin DOMAIN b,
           NEW o, o.owner = u, rests => Cardinality(a[u].open_orders) < MaxOpenOrders,
           NEW c, Opened(a, u, rests, k, c),
           NEW bb, bb = IF rests THEN With(b, k, o) ELSE b
    PROVE  /\ AccountsOK(c) /\ c[u].settled = Nothing
           /\ \A y \in Users \ {u} : c[y].settled = a[y].settled
           /\ OpenOrders(c, bb)
<1> DEFINE old == a[u].open_orders
           open == IF rests THEN old \cup {k} ELSE old
           r == [open_orders |-> open, settled |-> Nothing]
<1>1. a \in [Users -> [open_orders : SUBSET (1..MaxOrders), settled : BalanceSheets]]
  BY DEF AccountsOK
<1>2. open \in SUBSET (1..MaxOrders) /\ old \in SUBSET (1..MaxOrders)
  BY <1>1
<1>3. c = [a EXCEPT ![u] = r]
  <2> DEFINE q == a[u]
  <2>1. q \in [open_orders : SUBSET (1..MaxOrders), settled : BalanceSheets]
    BY <1>1
  <2>2. c = [a EXCEPT ![u] = [[q EXCEPT !.settled = Nothing] EXCEPT !.open_orders = open]]
    BY <1>1, <2>1 DEF Opened
  <2> HIDE DEF q, open
  <2>3. [[q EXCEPT !.settled = Nothing] EXCEPT !.open_orders = open]
          = [open_orders |-> open, settled |-> Nothing]
    BY <2>1, AccountRecord
  <2> QED BY <2>2, <2>3
<1>4. r \in [open_orders : SUBSET (1..MaxOrders), settled : BalanceSheets]
      /\ r.settled = Nothing /\ r.open_orders = open
  <2> HIDE DEF open
  <2> QED BY <1>2, NothingSheet
<1> HIDE DEF open, r
<1>5. /\ AccountsOK(c) /\ c[u].settled = Nothing /\ c[u].open_orders = open
      /\ \A y \in Users \ {u} : c[y] = a[y]
  BY <1>1, <1>3, <1>4 DEF AccountsOK
<1>6. \A y \in Users : c[y].open_orders = {j \in DOMAIN bb : bb[j].owner = y}
  <2> TAKE y \in Users
  <2>1. a[y].open_orders = {j \in DOMAIN b : b[j].owner = y}
    BY DEF OpenOrders
  <2>2. CASE ~ rests
    <3>1. bb = b /\ c[y].open_orders = a[y].open_orders
      BY <1>5, <2>2 DEF open
    <3> QED BY <2>1, <3>1
  <2>3. CASE rests
    <3>1. /\ DOMAIN bb = DOMAIN b \cup {k} /\ bb[k] = o
          /\ \A j \in DOMAIN b : bb[j] = b[j]
      BY <2>3 DEF With
    <3>2. CASE y = u
      <4>1. c[y].open_orders = a[y].open_orders \cup {k}
        BY <1>5, <2>3, <3>2 DEF open
      <4> QED BY <2>1, <3>1, <3>2, <4>1
    <3>3. CASE y # u
      <4>1. c[y].open_orders = a[y].open_orders
        BY <1>5, <3>3
      <4> QED BY <2>1, <3>1, <3>3, <4>1
    <3> QED BY <3>2, <3>3
  <2> QED BY <2>2, <2>3
<1>7. \A y \in Users : Cardinality(c[y].open_orders) <= MaxOpenOrders
  <2> TAKE y \in Users
  <2>1. CASE y # u
    BY <1>5, <2>1 DEF OpenOrders
  <2>2. CASE y = u /\ ~ rests
    BY <1>5, <2>2 DEF OpenOrders, open
  <2>3. CASE y = u /\ rests
    <3>1. IsFiniteSet(old) /\ Cardinality(old) \in Nat
      <4> HIDE DEF old
      <4> QED BY <1>2, FewOrders
    <3>2. Cardinality(old \cup {k}) <= Cardinality(old) + 1
      <4> HIDE DEF old
      <4>1. Cardinality(old \cup {k}) = IF k \in old THEN Cardinality(old) ELSE Cardinality(old) + 1
        BY <3>1, FS_AddElement
      <4> QED BY <3>1, <4>1
    <3>3. Cardinality(old) < MaxOpenOrders /\ MaxOpenOrders \in Nat
      BY <2>3, PoolAssumption
    <3>4. Cardinality(old \cup {k}) \in Nat
      <4>1. old \cup {k} \subseteq 1..MaxOrders
        BY <1>2
      <4> HIDE DEF old
      <4> QED BY <4>1, FewOrders
    <3> HIDE DEF old
    <3>5. Cardinality(old \cup {k}) <= MaxOpenOrders
      BY <3>1, <3>2, <3>3, <3>4
    <3>6. c[y].open_orders = old \cup {k}
      BY <1>5, <2>3 DEF open
    <3> QED BY <3>5, <3>6
  <2> QED BY <2>1, <2>2, <2>3
<1> QED BY <1>5, <1>6, <1>7 DEF OpenOrders

-----------------------------------------------------------------------------
(* The money of an order (calculate_partial_fill_balances). *)

(* What a new order locks is added to what the book locks.                  *)
LEMMA InjectedLocks ==
    ASSUME NEW b, BookOK(b), NEW h, RatesOK(b, h), NEW k \in 1..MaxOrders, k \notin DOMAIN b,
           NEW o, historic_maker_fee(h, o.epoch) \in Nat,
           NEW c, c = With(b, k, o), BookOK(c), NEW x \in Assets
    PROVE  LET lock == locked_balance(o, historic_maker_fee(h, o.epoch))[x]
           IN  lock \in Nat /\ LockedIn(c, h, x) = LockedIn(b, h, x) + lock
<1> DEFINE f == Locks(b, h, x)
           g == Locks(c, h, x)
           lock == locked_balance(o, historic_maker_fee(h, o.epoch))[x]
<1>1. /\ DOMAIN c = DOMAIN b \cup {k} /\ c[k] = o /\ \A j \in DOMAIN b : c[j] = b[j]
  BY DEF With
<1>2. RatesOK(c, h)
  BY <1>1 DEF RatesOK
<1>3. \A j \in 1..MaxOrders : f[j] \in Nat /\ g[j] \in Nat
  BY <1>2, LocksFacts
<1>4. f[k] = 0 /\ g[k] = lock
  BY <1>1 DEF Locks
<1>5. \A j \in 1..MaxOrders : j # k => f[j] = g[j]
  BY <1>1 DEF Locks
<1>6. LockedIn(b, h, x) = Total(f, MaxOrders) /\ LockedIn(c, h, x) = Total(g, MaxOrders)
      /\ LockedIn(b, h, x) \in Nat
  BY LocksFacts DEF LockedIn
<1> HIDE DEF f, g, lock
<1>7. OneChange(f, g, MaxOrders, k)
  BY <1>3, <1>5 DEF OneChange
<1>8. Total(g, MaxOrders) = Total(f, MaxOrders) + g[k] - f[k]
  BY <1>7, TotalOneChange, PoolAssumption
<1>9. lock \in Nat
  BY <1>3, <1>4
<1> QED BY <1>4, <1>6, <1>8, <1>9 DEF lock

(* What goes in and out of the vault for an order.                          *)
Pays(b, h, t, m, z, s, u, fee, lock, c, bb, v, vv) ==
    /\ BookOK(b) /\ RatesOK(b, h) /\ TakerOK(t) /\ FillsMatched(b, m)
    /\ \A x \in Assets : Balanced(b, h, t, m, x)
    /\ AccountsOK(z.accounts) /\ z.fees \in BalanceSheets
    /\ Processed(h, z, m.fills, Len(m.fills), s)
    /\ m.executed \in Nat /\ m.quote \in Nat
    /\ u \in Users /\ AccountsOK(c) /\ c[u].settled = Nothing
    /\ \A y \in Users \ {u} : c[y].settled = s.accounts[y].settled
    /\ fee \in BalanceSheets /\ lock \in BalanceSheets /\ BookOK(m.book) /\ RatesOK(m.book, h)
    /\ v \in BalanceSheets /\ vv \in BalanceSheets
    /\ \A x \in Assets :
          /\ LockedIn(bb, h, x) = LockedIn(m.book, h, x) + lock[x]
          /\ vv[x] + (TakerGets(t, m)[x] + s.accounts[u].settled[x])
               = v[x] + (TakerPays(t, m)[x] + fee[x] + lock[x])

(* What the vault owes grows by no more than what the vault holds, when the *)
(* fee of the taker is counted in the asset it was paid in.                 *)
LEMMA OrderPaidFor ==
    ASSUME NEW b, NEW h, NEW t, NEW m, NEW z, NEW s, NEW u, NEW fee, NEW lock, NEW c, NEW bb,
           NEW v, NEW vv, Pays(b, h, t, m, z, s, u, fee, lock, c, bb, v, vv), NEW x \in Assets
    PROVE  /\ SettledIn(c, x) + LockedIn(bb, h, x) + s.fees[x] + fee[x] + v[x]
                <= vv[x] + SettledIn(z.accounts, x) + LockedIn(b, h, x) + z.fees[x]
           /\ SettledIn(c, x) \in Nat /\ LockedIn(bb, h, x) \in Nat /\ s.fees[x] \in Nat
           /\ SettledIn(z.accounts, x) \in Nat /\ LockedIn(b, h, x) \in Nat
           /\ z.fees[x] \in Nat /\ fee[x] \in Nat /\ v[x] \in Nat /\ vv[x] \in Nat
           /\ z.fees[x] <= s.fees[x]
<1> DEFINE sz == SettledIn(z.accounts, x)
           ss == SettledIn(s.accounts, x)
           sc == SettledIn(c, x)
           lb == LockedIn(b, h, x)
           lm == LockedIn(m.book, h, x)
           lbb == LockedIn(bb, h, x)
           paid == PaidOut(h, m.fills, x)
           gets == TakerGets(t, m)[x]
           pays == TakerPays(t, m)[x]
           mine == s.accounts[u].settled[x]
           fz == z.fees[x]
           fs == s.fees[x]
           f == fee[x]
           l == lock[x]
           vx == v[x]
           vvx == vv[x]
<1>1. /\ BookOK(b) /\ RatesOK(b, h) /\ TakerOK(t) /\ FillsMatched(b, m)
      /\ AccountsOK(z.accounts) /\ z.fees \in BalanceSheets
      /\ Processed(h, z, m.fills, Len(m.fills), s)
      /\ m.executed \in Nat /\ m.quote \in Nat
      /\ u \in Users /\ AccountsOK(c) /\ c[u].settled = Nothing
      /\ \A y \in Users \ {u} : c[y].settled = s.accounts[y].settled
      /\ fee \in BalanceSheets /\ lock \in BalanceSheets /\ BookOK(m.book) /\ RatesOK(m.book, h)
      /\ v \in BalanceSheets /\ vv \in BalanceSheets
  BY DEF Pays
<1>2. AccountsOK(s.accounts) /\ s.fees \in BalanceSheets /\ fz <= fs
  BY <1>1 DEF Processed
<1>3. ss + fs = sz + fz + paid
  BY <1>1 DEF Processed, PaidOut
<1>4. lm + paid + gets <= lb + pays
  BY DEF Pays, Balanced
<1>5. sc + mine = ss /\ mine \in Nat /\ sc \in Nat /\ ss \in Nat
  BY <1>1, <1>2, SettledOut
<1>6. lbb = lm + l /\ vvx + (gets + mine) = vx + (pays + f + l)
  BY DEF Pays
<1>7. sz \in Nat /\ lb \in Nat /\ lm \in Nat /\ paid \in Nat
  BY <1>1, SettledFacts, LocksFacts, ValuesFacts
<1>8. gets \in Nat /\ pays \in Nat
  BY <1>1 DEF TakerGets, TakerPays, new, Assets
<1>9. fz \in Nat /\ fs \in Nat /\ f \in Nat /\ l \in Nat /\ vx \in Nat /\ vvx \in Nat
  BY <1>1, <1>2 DEF BalanceSheets
<1> HIDE DEF sz, ss, sc, lb, lm, lbb, paid, gets, pays, mine, fz, fs, f, l, vx, vvx
<1>10. sc + lbb + fs + f + vx <= vvx + sz + lb + fz /\ lbb \in Nat
  BY <1>3, <1>4, <1>5, <1>6, <1>7, <1>8, <1>9
<1> QED BY <1>2, <1>5, <1>7, <1>9, <1>10 DEF sz, sc, lb, lbb, fz, fs, f, vx, vvx

-----------------------------------------------------------------------------
(* Placing orders (place_order_int). *)

(* The orders that PlaceLimitOrder and PlaceMarketOrder place.              *)
Ordered(t) ==
    /\ TakerOK(t) /\ t.pay_with_deep \in BOOLEAN /\ t.expire \in Nat
    /\ t.market \in BOOLEAN /\ (t.market => t.order_type = "immediate_or_cancel")

(* The fees an order may pay are rates.                                     *)
LEMMA TakerRates ==
    ASSUME FeeInv
    PROVE  /\ TakerFees \subseteq Nat
           /\ G.trade_params.taker_fee \in Nat /\ G.trade_params.maker_fee \in Nat
<1>1. G \in [epoch : Nat, trade_params : Params, next_trade_params : Params]
  BY UpdatedFees DEF FeeInv, FeesOK
<1>2. G.trade_params.taker_fee \in Nat /\ G.trade_params.maker_fee \in Nat
  BY <1>1 DEF Params
<1> DEFINE fee == G.trade_params.taker_fee
<1>3. fee \in Nat /\ fee \div 2 \in Nat
  <2> HIDE DEF fee
  <2>1. fee \in Nat
    BY <1>2 DEF fee
  <2> QED BY <2>1
<1>4. AdditionalTakerFee \in Nat
  BY PoolAssumption
<1> HIDE DEF fee
<1>5. \A f \in {fee, fee \div 2}, p \in {0, AdditionalTakerFee} : f + p \in Nat
  BY <1>3, <1>4
<1>6. TakerFees \subseteq {f + p : f \in {fee, fee \div 2}, p \in {0, AdditionalTakerFee}}
  BY DEF TakerFees, fee
<1> QED BY <1>2, <1>5, <1>6

(* The fee that is recorded, and the one of the referral, are sheets.       *)
LEMMA RecordedFees ==
    ASSUME NEW t, TakerOK(t), NEW fee \in BalanceSheets
    PROVE  paid_fees_balances(t, fee) \in BalanceSheets /\ referral_fees(t, fee) \in BalanceSheets
<1> DEFINE v == non_zero_value(fee)
<1>1. fee["base"] \in Nat /\ fee["quote"] \in Nat /\ fee["deep"] \in Nat
  BY DEF BalanceSheets, Assets
<1>2. v \in Nat /\ 0 \in Nat
  BY <1>1 DEF non_zero_value
<1> HIDE DEF v
<1>3. paid_fees_balances(t, fee) \in BalanceSheets
  BY <1>2, NewSheet DEF paid_fees_balances, v
<1>4. ReferralMultiplier[t.owner] \in Nat
  BY PoolAssumption DEF TakerOK
<1> QED BY <1>3, <1>4, MulSheet DEF referral_fees

(* An order that rests, as it is injected.                                  *)
LEMMA InjectedOrder ==
    ASSUME NEW b, NEW t, Ordered(t), NEW m, Matched(b, t, m), Rests(t, m), epoch \in Nat,
           CountersOK(b, nextBid, nextAsk), Arrivals < MaxOrders, validate_inputs(t)
    PROVE  Injected(t, m, nextBid, nextAsk, Arrivals + 1, ToOrder(t, m))
<1> DEFINE o == ToOrder(t, m)
<1>1. /\ t.owner \in Users /\ t.is_bid \in BOOLEAN /\ t.price \in Nat /\ t.quantity \in Nat
      /\ t.deep_price \in OrderDeepPrice /\ t.expire \in Nat /\ t.market \in BOOLEAN
      /\ t.market => t.order_type = "immediate_or_cancel"
  BY DEF Ordered, TakerOK
<1>2. m.executed \in Nat /\ m.executed < t.quantity /\ ~ t.market
  BY <1>1 DEF Matched, Rests
<1>3. t.price <= MaxPrice
  BY <1>2 DEF validate_inputs
<1>4. nextBid \in Nat /\ nextAsk \in Nat /\ 1 <= nextBid
  BY DEF CountersOK
<1>5. o = [owner |-> t.owner, is_bid |-> t.is_bid, price |-> t.price,
           seq |-> IF t.is_bid THEN nextBid - 1 ELSE nextAsk + 1, quantity |-> t.quantity,
           filled |-> m.executed, deep_price |-> t.deep_price, epoch |-> epoch,
           expire |-> t.expire]
  BY DEF ToOrder, get_order_id
<1> DEFINE q == IF t.is_bid THEN nextBid - 1 ELSE nextAsk + 1
<1>6. q \in Nat
  BY <1>4
<1> HIDE DEF q
<1>7. /\ o \in Order /\ o.owner = t.owner /\ o.is_bid = t.is_bid /\ o.price = t.price
      /\ o.seq = q /\ o.filled = m.executed /\ o.quantity = t.quantity
  BY <1>1, <1>2, <1>5, <1>6 DEF Order, q
<1> HIDE DEF o
<1> QED BY <1>2, <1>3, <1>7 DEF Injected, Arrivals, o, q

(* How often an order was cut is counted.                                   *)
LEMMA CutsCounted ==
    ASSUME NEW fills, fills \in Seq(Fill), NEW S, S \subseteq DOMAIN fills
    PROVE  Cardinality(S) \in Nat
<1>1. DOMAIN fills = 1..Len(fills) /\ Len(fills) \in Nat
  OBVIOUS
<1>2. IsFiniteSet(1..Len(fills))
  <2> DEFINE l == Len(fills)
  <2>1. l \in Int /\ 1 \in Int
    BY <1>1
  <2> HIDE DEF l
  <2>2. IsFiniteSet(1..l)
    BY <2>1, FS_Interval
  <2> QED BY <2>2 DEF l
<1>3. IsFiniteSet(S)
  BY <1>1, <1>2, FS_Subset
<1> QED BY <1>3, FS_CardinalityType

(* What an order does to what the vault holds and owes: rate is the fee     *)
(* rate of the taker, f are the fees collected from the makers and before.  *)
FeeRecorded(t, rate, f) ==
    LET m   == match_against_book(book, t, now)
        fee == FeeOf(t, m.executed, m.quote, rate)
    IN  /\ rate \in TakerFees /\ f \in BalanceSheets /\ fee \in BalanceSheets
        /\ fees' = add_balances(f, paid_fees_balances(t, fee))
        /\ \A x \in Assets :
              SettledIn(accounts', x) + LockedIn(book', history', x) + f[x] + fee[x] + vault[x]
                <= vault'[x] + SettledIn(accounts, x) + LockedIn(book, history, x) + fees[x]

(* An order keeps the invariant.                                            *)
LEMMA PlaceStep ==
    ASSUME IInv, NEW t, Ordered(t), PlaceOrder(t)
    PROVE  IInv' /\ \E rate, f : FeeRecorded(t, rate, f)
<1> DEFINE u == t.owner
           m == match_against_book(book, t, now)
           z == [accounts |-> accounts, fees |-> fees]
           s == process_fills(H, z, m.fills)
           k == Arrivals + 1
           o == ToOrder(t, m)
           rests == Rests(t, m)
<1>1. BookInv /\ FeeInv /\ MoneyInv /\ RestInv
  BY DEF IInv
<1>2. /\ Arrivals < MaxOrders /\ validate_inputs(t)
      /\ rests => Cardinality(s.accounts[u].open_orders) < MaxOpenOrders
      /\ book' = IF rests THEN With(m.book, k, o) ELSE m.book
      /\ Opened(s.accounts, u, rests, k, accounts')
      /\ nextBid' = IF t.is_bid THEN get_order_id(TRUE) ELSE nextBid
      /\ nextAsk' = IF t.is_bid THEN nextAsk ELSE get_order_id(FALSE)
      /\ gov' = G /\ history' = H
      /\ splits' = splits + Cardinality({i \in DOMAIN m.fills :
                               ~ m.fills[i].expired /\ ~ m.fills[i].completed})
      /\ UNCHANGED <<now, epoch, kind, ewma>>
  BY DEF PlaceOrder, Opened
<1>3. PICK rate \in TakerFees :
         LET fee == FeeOf(t, m.executed, m.quote, rate)
         IN  /\ fees' = add_balances(s.fees, paid_fees_balances(t, fee))
             /\ SettleWithReferral(u, add_balances(TakerGets(t, m), s.accounts[u].settled),
                                   TakerOwes(t, m, fee), referral_fees(t, fee))
  BY DEF PlaceOrder
<1> DEFINE fee == FeeOf(t, m.executed, m.quote, rate)
           out == add_balances(TakerGets(t, m), s.accounts[u].settled)
           in == TakerOwes(t, m, fee)
           referral == referral_fees(t, fee)
           lock == IF rests THEN locked_balance(o, G.trade_params.maker_fee) ELSE Nothing
<1>4. /\ fees' = add_balances(s.fees, paid_fees_balances(t, fee))
      /\ Moved(wallet, vault, rewards, u, out, in, referral, wallet', vault', rewards')
  BY <1>3 DEF SettleWithReferral, TransferCompletes, Moved
<1>5. in = add_balances(add_balances(TakerPays(t, m), fee), lock)
  BY DEF TakerOwes, TakerPays
<1>6. TakerOK(t) /\ u \in Users /\ t.is_bid \in BOOLEAN /\ t.quantity \in Nat
      /\ t.deep_price \in OrderDeepPrice
  BY DEF Ordered, TakerOK
<1>7. /\ BookOK(book) /\ CountersOK(book, nextBid, nextAsk) /\ Uncrossed(book)
      /\ OpenOrders(accounts, book)
  BY <1>1 DEF BookInv
<1>8. AccountsOK(accounts) /\ fees \in BalanceSheets /\ vault \in BalanceSheets
      /\ rewards \in BalanceSheets /\ wallet \in [Users -> BalanceSheets]
      /\ Covered(accounts, book, history, vault)
  BY <1>1 DEF MoneyInv
<1>9. /\ RatesOK(book, H) /\ EpochsKnown(book, H)
      /\ \A x \in Assets : LockedIn(book, H, x) = LockedIn(book, history, x)
  BY <1>1, UpdatedLocks
<1>10. /\ FeesOK(G, H, epoch) /\ H.epoch = epoch /\ epoch \in Nat
       /\ epoch \in DOMAIN H.maker_fee /\ H.maker_fee[epoch] = G.trade_params.maker_fee
  BY <1>1, UpdatedFees DEF FeeInv, FeesOK
<1>11. rate \in Nat /\ G.trade_params.maker_fee \in Nat
  BY <1>1, TakerRates
<1>12. MatchDone(book, t, m)
  BY <1>6, <1>7, MatchResult DEF MatchDone
<1>13. \A x \in Assets : Balanced(book, H, t, m, x)
  BY <1>6, <1>7, <1>9, MatchMoney
<1> HIDE DEF m
<1>14. /\ Matched(book, t, m) /\ BookMatched(book, t, m) /\ FillsMatched(book, m)
       /\ m.executed \in Nat /\ m.executed <= t.quantity /\ m.quote \in Nat
       /\ m.fills \in Seq(Fill)
  BY <1>12 DEF MatchDone, Matched, FillsMatched
<1>15. z.accounts = accounts /\ z.fees = fees
  OBVIOUS
<1> HIDE DEF z
<1>16. Processed(H, z, m.fills, Len(m.fills), s)
  BY <1>7, <1>8, <1>9, <1>14, <1>15, ProcessResult
<1> HIDE DEF s
<1>17. AccountsOK(s.accounts) /\ s.fees \in BalanceSheets /\ s.accounts[u].settled \in BalanceSheets
  BY <1>6, <1>16 DEF Processed, AccountsOK
<1>18. OpenOrders(s.accounts, m.book)
  BY <1>7, <1>8, <1>14, <1>15, <1>16, FilledAccounts
<1>19. /\ BookOK(m.book) /\ Uncrossed(m.book) /\ CountersOK(m.book, nextBid, nextAsk)
       /\ CountersOK(m.book, BidAfter(t, nextBid), AskAfter(t, nextAsk))
  BY <1>2, <1>6, <1>7, <1>14, MatchedInOrder DEF Arrivals
<1>20. RatesOK(m.book, H)
  BY <1>7, <1>9, <1>14, MatchedRates
<1>21. nextBid' = BidAfter(t, nextBid) /\ nextAsk' = AskAfter(t, nextAsk)
  BY <1>2 DEF BidAfter, AskAfter, get_order_id
<1>22. rests => Injected(t, m, nextBid, nextAsk, k, o)
  BY <1>2, <1>7, <1>10, <1>14, InjectedOrder
<1>23. k \in 1..MaxOrders /\ k \notin DOMAIN m.book
  <2>1. /\ nextBid \in Nat /\ nextAsk \in Nat /\ nextBid <= MaxOrders + 1 /\ 1 <= nextAsk
        /\ \A j \in DOMAIN m.book : j <= (MaxOrders + 1 - nextBid) + (nextAsk - 1)
    BY <1>19 DEF CountersOK
  <2>2. DOMAIN m.book \subseteq 1..MaxOrders /\ MaxOrders \in Nat
    BY <1>19, PoolAssumption DEF BookOK
  <2> QED BY <1>2, <2>1, <2>2 DEF Arrivals
<1>24. BookOK(book') /\ CountersOK(book', nextBid', nextAsk') /\ Uncrossed(book')
  <2>1. CASE ~ rests
    BY <1>2, <1>19, <1>21, <2>1
  <2>2. CASE rests
    <3>1. book' = With(m.book, k, o)
      BY <1>2, <2>2
    <3>2. (MaxOrders + 1 - nextBid) + (nextAsk - 1) < MaxOrders
      BY <1>2 DEF Arrivals
    <3>3. Injected(t, m, nextBid, nextAsk, k, o) /\ Rests(t, m)
      BY <1>22, <2>2
    <3> HIDE DEF k, o
    <3> QED BY <1>6, <1>7, <1>12, <1>21, <3>1, <3>2, <3>3, InjectedInOrder
  <2> QED BY <2>1, <2>2
<1>25. o.owner = u /\ o.epoch = epoch
  BY DEF ToOrder
<1>26. rests \in BOOLEAN
  BY DEF Rests
<1> HIDE DEF o, k, rests
<1>27. /\ AccountsOK(accounts') /\ accounts'[u].settled = Nothing
       /\ \A y \in Users \ {u} : accounts'[y].settled = s.accounts[y].settled
       /\ OpenOrders(accounts', book')
  BY <1>2, <1>6, <1>17, <1>18, <1>23, <1>25, <1>26, OpenedAccount
<1>28. BookInv'
  BY <1>24, <1>27 DEF BookInv
<1>29. FeeInv'
  <2>1. EpochsKnown(m.book, H)
    <3> SUFFICES ASSUME NEW j \in DOMAIN m.book PROVE m.book[j].epoch \in DOMAIN H.maker_fee
      BY DEF EpochsKnown
    <3>1. j \in DOMAIN book /\ m.book[j] = [book[j] EXCEPT !.filled = m.book[j].filled]
      BY <1>14 DEF BookMatched
    <3>2. book[j] \in Order
      BY <1>7, <3>1 DEF BookOK
    <3>3. m.book[j].epoch = book[j].epoch
      BY <3>1, <3>2 DEF Order
    <3> QED BY <1>9, <3>1, <3>3 DEF EpochsKnown
  <2>2. EpochsKnown(book', H)
    BY <1>2, <1>10, <1>25, <2>1 DEF EpochsKnown, With
  <2> QED BY <1>1, <1>2, <2>2, FeesKept
<1>30. RestInv'
  <2> DEFINE cuts == {i \in DOMAIN m.fills : ~ m.fills[i].expired /\ ~ m.fills[i].completed}
  <2>1. Cardinality(cuts) \in Nat
    <3>1. cuts \subseteq DOMAIN m.fills
      OBVIOUS
    <3> HIDE DEF cuts
    <3> QED BY <1>14, <3>1, CutsCounted
  <2>2. splits' = splits + Cardinality(cuts)
    BY <1>2
  <2> HIDE DEF cuts
  <2>3. splits' \in Nat /\ now' \in Nat
    BY <1>1, <1>2, <2>1, <2>2 DEF RestInv
  <2> QED BY <1>1, <1>2, <2>3, RestKept DEF FeeInv
<1>31. fee \in BalanceSheets
  BY <1>6, <1>11, <1>14, FeeSheet
<1>32. TakerGets(t, m) \in BalanceSheets /\ TakerPays(t, m) \in BalanceSheets
  BY <1>14, NewSheet DEF TakerGets, TakerPays
<1>33. /\ lock \in BalanceSheets
       /\ \A x \in Assets : LockedIn(book', H, x) = LockedIn(m.book, H, x) + lock[x]
  <2>1. CASE ~ rests
    <3>1. lock = Nothing /\ book' = m.book
      BY <1>2, <2>1
    <3>2. \A x \in Assets : LockedIn(m.book, H, x) \in Nat
      BY <1>19, <1>20, LocksFacts
    <3> HIDE DEF lock
    <3> QED BY <3>1, <3>2, NothingSheet
  <2>2. CASE rests
    <3>1. lock = locked_balance(o, G.trade_params.maker_fee) /\ book' = With(m.book, k, o)
      BY <1>2, <2>2
    <3>2. historic_maker_fee(H, o.epoch) = G.trade_params.maker_fee
      BY <1>10, <1>25 DEF historic_maker_fee
    <3>3. ASSUME NEW x \in Assets
          PROVE  lock[x] \in Nat /\ LockedIn(book', H, x) = LockedIn(m.book, H, x) + lock[x]
      BY <1>11, <1>19, <1>20, <1>23, <1>24, <3>1, <3>2, InjectedLocks
    <3>4. lock \in BalanceSheets
      <4>1. o \in Order /\ o.filled < o.quantity
        BY <1>22, <2>2 DEF Injected
      <4>2. remaining(o) \in Nat
        BY <4>1, OrderFields DEF remaining
      <4>3. LockedFor(o, remaining(o), G.trade_params.maker_fee) \in BalanceSheets
        BY <1>11, <4>1, <4>2, OrderFields, LockedSheet
      <4> QED BY <3>1, <4>3 DEF locked_balance
    <3> QED BY <3>3, <3>4
  <2> QED BY <2>1, <2>2, <1>26
<1> HIDE DEF fee, lock, u
<1>34. /\ out \in BalanceSheets /\ in \in BalanceSheets /\ referral \in BalanceSheets
       /\ paid_fees_balances(t, fee) \in BalanceSheets
       /\ \A x \in Assets : /\ out[x] = TakerGets(t, m)[x] + s.accounts[u].settled[x]
                            /\ in[x] = TakerPays(t, m)[x] + fee[x] + lock[x]
  <2>1. out \in BalanceSheets
        /\ \A x \in Assets : out[x] = TakerGets(t, m)[x] + s.accounts[u].settled[x]
    BY <1>17, <1>32, AddSheets
  <2> DEFINE part == add_balances(TakerPays(t, m), fee)
  <2>2. part \in BalanceSheets /\ \A x \in Assets : part[x] = TakerPays(t, m)[x] + fee[x]
    BY <1>31, <1>32, AddSheets
  <2> HIDE DEF part
  <2>3. in \in BalanceSheets /\ \A x \in Assets : in[x] = part[x] + lock[x]
    BY <1>5, <1>33, <2>2, AddSheets DEF part
  <2>4. referral \in BalanceSheets /\ paid_fees_balances(t, fee) \in BalanceSheets
    BY <1>6, <1>31, RecordedFees
  <2> HIDE DEF out, in, referral
  <2> QED BY <2>1, <2>2, <2>3, <2>4
<1> HIDE DEF out, in, referral
<1>35. /\ wallet' \in [Users -> BalanceSheets] /\ vault' \in BalanceSheets
       /\ rewards' \in BalanceSheets
       /\ \A x \in Assets : vault'[x] + out[x] = vault[x] + in[x]
  <2>1. Moved(wallet, vault, rewards, u, out, in, referral, wallet', vault', rewards')
    BY <1>4 DEF out, in, referral
  <2>2. u \in Users
    BY <1>6
  <2>3. out \in BalanceSheets /\ in \in BalanceSheets /\ referral \in BalanceSheets
    BY <1>34
  <2>4. wallet \in [Users -> BalanceSheets] /\ vault \in BalanceSheets
        /\ rewards \in BalanceSheets
    BY <1>8
  <2>5. Movable(wallet, vault, rewards, u, out, in, referral)
    BY <2>2, <2>3, <2>4 DEF Movable
  <2>6. SheetsMoved(vault, out, in, wallet', vault', rewards')
    BY <2>1, <2>5, MovedSheets
  <2> QED BY <2>6 DEF SheetsMoved
<1>36. Pays(book, H, t, m, z, s, u, fee, lock, accounts', book', vault, vault')
  <2>1. \A x \in Assets :
           /\ LockedIn(book', H, x) = LockedIn(m.book, H, x) + lock[x]
           /\ vault'[x] + (TakerGets(t, m)[x] + s.accounts[u].settled[x])
                = vault[x] + (TakerPays(t, m)[x] + fee[x] + lock[x])
    BY <1>33, <1>34, <1>35
  <2> QED BY <1>6, <1>7, <1>8, <1>9, <1>13, <1>14, <1>15, <1>16, <1>19, <1>20, <1>27,
             <1>31, <1>33, <1>35, <2>1 DEF Pays
<1>37. ASSUME NEW x \in Assets
       PROVE  /\ SettledIn(accounts', x) + LockedIn(book', H, x) + s.fees[x] + fee[x] + vault[x]
                   <= vault'[x] + SettledIn(accounts, x) + LockedIn(book, H, x) + fees[x]
              /\ SettledIn(accounts', x) \in Nat /\ LockedIn(book', H, x) \in Nat
              /\ s.fees[x] \in Nat /\ SettledIn(accounts, x) \in Nat
              /\ LockedIn(book, H, x) \in Nat /\ fees[x] \in Nat /\ fee[x] \in Nat
              /\ vault[x] \in Nat /\ vault'[x] \in Nat /\ fees[x] <= s.fees[x]
  BY <1>15, <1>36, OrderPaidFor
<1>38. fees' \in BalanceSheets
  BY <1>4, <1>17, <1>34, AddSheets
<1>39. ASSUME NEW x \in Assets
       PROVE  SettledIn(accounts', x) + LockedIn(book', H, x) <= vault'[x]
  <2> DEFINE sc == SettledIn(accounts', x)
             lc == LockedIn(book', H, x)
             sa == SettledIn(accounts, x)
             lb == LockedIn(book, H, x)
             fs == s.fees[x]
             f == fee[x]
             ff == fees[x]
             vx == vault[x]
             vvx == vault'[x]
  <2>1. sa + lb <= vx
    BY <1>8, <1>9 DEF Covered
  <2>2. /\ sc + lc + fs + f + vx <= vvx + sa + lb + ff /\ ff <= fs
        /\ sc \in Nat /\ lc \in Nat /\ sa \in Nat /\ lb \in Nat /\ fs \in Nat /\ f \in Nat
        /\ ff \in Nat /\ vx \in Nat /\ vvx \in Nat
    BY <1>37
  <2> HIDE DEF sc, lc, sa, lb, fs, f, ff, vx, vvx
  <2>3. sc + lc <= vvx
    BY <2>1, <2>2
  <2> QED BY <2>3 DEF sc, lc, vvx
<1>40. MoneyInv'
  BY <1>2, <1>27, <1>35, <1>38, <1>39 DEF MoneyInv, Covered
<1>41. FeeRecorded(t, rate, s.fees)
  <2>1. \A x \in Assets :
           SettledIn(accounts', x) + LockedIn(book', history', x) + s.fees[x] + fee[x] + vault[x]
             <= vault'[x] + SettledIn(accounts, x) + LockedIn(book, history, x) + fees[x]
    BY <1>2, <1>9, <1>37
  <2>2. fee = FeeOf(t, match_against_book(book, t, now).executed,
                    match_against_book(book, t, now).quote, rate)
    BY DEF fee, m
  <2> QED BY <1>4, <1>17, <1>31, <2>1, <2>2 DEF FeeRecorded
<1> QED BY <1>28, <1>29, <1>30, <1>40, <1>41 DEF IInv

-----------------------------------------------------------------------------
(* The other actions. *)

(* What the pool owes and holds are natural numbers.                        *)
LEMMA SumsKnown ==
    ASSUME IInv, NEW x \in Assets
    PROVE  /\ SettledIn(accounts, x) \in Nat /\ LockedIn(book, history, x) \in Nat
           /\ fees[x] \in Nat /\ vault[x] \in Nat
<1>1. BookInv /\ FeeInv /\ MoneyInv
  BY DEF IInv
<1>2. RatesOK(book, history) /\ BookOK(book)
  BY <1>1 DEF BookInv, FeeInv, FeesOK, EpochsKnown, RatesOK, historic_maker_fee
<1>3. AccountsOK(accounts) /\ fees[x] \in Nat /\ vault[x] \in Nat
  BY <1>1 DEF MoneyInv, BalanceSheets
<1> QED BY <1>2, <1>3, LocksFacts, SettledFacts

(* A step that leaves orders and accounts alone owes what was owed.         *)
LEMMA NothingMoved ==
    ASSUME IInv, UNCHANGED <<book, nextBid, nextAsk, accounts, fees, vault>>,
           history' = history \/ history' = H
    PROVE  Refunded
<1>1. ASSUME NEW x \in Assets
      PROVE  SettledIn(accounts', x) + LockedIn(book', history', x) + vault[x]
               <= vault'[x] + SettledIn(accounts, x) + LockedIn(book, history, x)
  <2>1. LockedIn(book, H, x) = LockedIn(book, history, x)
    BY UpdatedLocks DEF IInv
  <2>2. LockedIn(book', history', x) = LockedIn(book, history, x)
    BY <2>1
  <2>3. SettledIn(accounts', x) = SettledIn(accounts, x) /\ vault'[x] = vault[x]
    OBVIOUS
  <2> DEFINE a == SettledIn(accounts, x)
             b == LockedIn(book, history, x)
             v == vault[x]
  <2>4. a \in Nat /\ b \in Nat /\ v \in Nat
    BY SumsKnown
  <2> HIDE DEF a, b, v
  <2>5. a + b + v <= v + a + b
    BY <2>4
  <2> QED BY <2>2, <2>3, <2>5 DEF a, b, v
<1> QED BY <1>1 DEF Refunded, OwesLess

(* Votes, the admin, the clock, a new epoch and claimed rewards.            *)
LEMMA VoteStep ==
    ASSUME IInv, NEW params \in TradeParams, Vote(params)
    PROVE  IInv' /\ Refunded
<1>1. BookInv /\ FeeInv /\ MoneyInv /\ RestInv
  BY DEF IInv
<1>2. /\ kind # "whitelisted" /\ gov' = [G EXCEPT !.next_trade_params = params]
      /\ history' = H
      /\ UNCHANGED <<now, epoch, kind, ewma, book, nextBid, nextAsk,
                     accounts, fees, wallet, vault, rewards, splits>>
  BY DEF Vote
<1>3. /\ FeesOK(G, H, epoch) /\ EpochsKnown(book, H)
      /\ \A x \in Assets : LockedIn(book, H, x) = LockedIn(book, history, x)
  BY <1>1, UpdatedFees, UpdatedLocks DEF FeeInv
<1>4. params \in Params /\ G \in [epoch : Nat, trade_params : Params, next_trade_params : Params]
  BY <1>3, PoolAssumption DEF FeesOK
<1>5. /\ gov' \in [epoch : Nat, trade_params : Params, next_trade_params : Params]
      /\ gov'.epoch = G.epoch /\ gov'.trade_params = G.trade_params
  BY <1>2, <1>4
<1>6. FeeInv'
  BY <1>2, <1>3, <1>5 DEF FeeInv, FeesOK
<1>7. BookInv'
  BY <1>1, <1>2 DEF BookInv
<1>8. MoneyInv'
  BY <1>1, <1>2, <1>3 DEF MoneyInv, Covered
<1>9. RestInv'
  BY <1>1, <1>2 DEF RestInv
<1>10. Refunded
  BY <1>2, NothingMoved
<1> QED BY <1>6, <1>7, <1>8, <1>9, <1>10 DEF IInv

(* The steps around trading keep the invariant (claim_pool_referral_rewards, *)
(* enable_ewma_state and the environment).                                  *)
LEMMA OtherStep ==
    ASSUME IInv,
           \/ ClaimPoolReferralRewards \/ Tick \/ NextEpoch \/ UNCHANGED vars
           \/ \E enable \in BOOLEAN : EnableEwmaState(enable)
    PROVE  IInv' /\ Refunded
<1>1. BookInv /\ FeeInv /\ MoneyInv /\ RestInv
  BY DEF IInv
<1>2. UNCHANGED <<kind, gov, history, book, nextBid, nextAsk, accounts, fees, wallet, vault, splits>>
  BY DEF ClaimPoolReferralRewards, EnableEwmaState, Tick, NextEpoch, vars
<1>3. BookInv'
  BY <1>1, <1>2 DEF BookInv
<1>4. epoch \in Nat /\ epoch' \in Nat /\ epoch <= epoch'
  <2>1. epoch \in Nat
    BY <1>1 DEF FeeInv, FeesOK
  <2>2. epoch' = epoch \/ epoch' = epoch + 1
    BY DEF ClaimPoolReferralRewards, EnableEwmaState, Tick, NextEpoch, vars
  <2> QED BY <2>1, <2>2
<1>5. FeesOK(gov, history, epoch')
  <2>1. gov.epoch \in Nat /\ gov.epoch <= epoch
    BY <1>1 DEF FeeInv, FeesOK
  <2>2. gov.epoch <= epoch'
    BY <1>4, <2>1
  <2> QED BY <1>1, <1>4, <2>2 DEF FeeInv, FeesOK
<1>6. FeeInv'
  BY <1>1, <1>2, <1>5 DEF FeeInv
<1>7. rewards' \in BalanceSheets
  <2>1. rewards' = rewards \/ rewards' = Nothing
    BY DEF ClaimPoolReferralRewards, EnableEwmaState, Tick, NextEpoch, vars
  <2> QED BY <1>1, <2>1, NothingSheet DEF MoneyInv
<1>8. MoneyInv'
  BY <1>1, <1>2, <1>7 DEF MoneyInv
<1>9. RestInv'
  <2>1. now \in Nat
    BY <1>1 DEF RestInv
  <2>2. now' = now \/ now' = now + 1
    BY DEF ClaimPoolReferralRewards, EnableEwmaState, Tick, NextEpoch, vars
  <2>3. now' \in Nat
    BY <2>1, <2>2
  <2>4. ewma' = ewma \/ (ewma' \in BOOLEAN /\ kind \in EwmaKinds)
    BY DEF ClaimPoolReferralRewards, EnableEwmaState, Tick, NextEpoch, vars
  <2> QED BY <1>1, <1>2, <2>3, <2>4 DEF RestInv
<1>10. Refunded
  BY <1>2, NothingMoved
<1> QED BY <1>3, <1>6, <1>8, <1>9, <1>10 DEF IInv

(* A limit or a market order is an order the other lemmas speak of, at a    *)
(* DEEP price the pool may have given it (place_limit_order,                *)
(* place_market_order).                                                     *)
Placed ==
    \E t : Ordered(t) /\ t.deep_price \in DeepPricesFor(t.pay_with_deep) /\ PlaceOrder(t)

(* A DEEP price is one of the configured ones, or the empty one.           *)
LEMMA DeepPricesKnown == ASSUME NEW pay PROVE DeepPricesFor(pay) \subseteq OrderDeepPrice
<1>1. EmptyDeepPrice \in OrderDeepPrice
  BY DEF EmptyDeepPrice, OrderDeepPrice
<1> QED BY <1>1, PoolAssumption DEF DeepPricesFor

(* place_limit_order and place_market_order place an order.                 *)
LEMMA OrdersPlaced ==
    ASSUME now \in Nat, NEW u \in Users, NEW is_bid \in BOOLEAN, NEW quantity \in Quantities,
           NEW option \in Options, NEW pay \in PayWithDeep,
           \/ PlaceMarketOrder(u, is_bid, quantity, option, pay)
           \/ \E price \in Prices, type \in Types, expire \in Expiries :
                 PlaceLimitOrder(u, is_bid, price, quantity, type, option, pay, expire)
    PROVE  Placed
<1>1. quantity \in Nat /\ pay \in BOOLEAN /\ MinPrice \in Nat /\ MaxPrice \in Nat
  BY PoolAssumption
<1>2. CASE PlaceMarketOrder(u, is_bid, quantity, option, pay)
  <2> DEFINE price == IF is_bid THEN MaxPrice ELSE MinPrice
  <2>1. price \in Nat
    BY <1>1
  <2> HIDE DEF price
  <2>2. PICK d \in DeepPricesFor(pay) :
           PlaceOrder([owner |-> u, is_bid |-> is_bid, price |-> price,
                       quantity |-> quantity, order_type |-> "immediate_or_cancel",
                       self_matching |-> option, pay_with_deep |-> pay,
                       deep_price |-> d, expire |-> now, market |-> TRUE])
    BY <1>2 DEF PlaceMarketOrder, price
  <2> DEFINE t == [owner |-> u, is_bid |-> is_bid, price |-> price,
                   quantity |-> quantity, order_type |-> "immediate_or_cancel",
                   self_matching |-> option, pay_with_deep |-> pay,
                   deep_price |-> d, expire |-> now, market |-> TRUE]
  <2>3. d \in OrderDeepPrice
    BY DeepPricesKnown
  <2>4. Ordered(t) /\ t.deep_price = d /\ t.pay_with_deep = pay
    BY <1>1, <2>1, <2>3 DEF Ordered, TakerOK
  <2>5. PlaceOrder(t)
    BY <2>2
  <2> HIDE DEF t
  <2> QED BY <2>4, <2>5 DEF Placed
<1>3. ASSUME NEW price \in Prices, NEW type \in Types, NEW expire \in Expiries,
             PlaceLimitOrder(u, is_bid, price, quantity, type, option, pay, expire)
      PROVE  Placed
  <2>1. price \in Nat /\ expire \in Nat
    BY PoolAssumption
  <2>2. PICK d \in DeepPricesFor(pay) :
           PlaceOrder([owner |-> u, is_bid |-> is_bid, price |-> price,
                       quantity |-> quantity, order_type |-> type,
                       self_matching |-> option, pay_with_deep |-> pay,
                       deep_price |-> d, expire |-> expire, market |-> FALSE])
    BY <1>3 DEF PlaceLimitOrder
  <2> DEFINE t == [owner |-> u, is_bid |-> is_bid, price |-> price,
                   quantity |-> quantity, order_type |-> type,
                   self_matching |-> option, pay_with_deep |-> pay,
                   deep_price |-> d, expire |-> expire, market |-> FALSE]
  <2>3. d \in OrderDeepPrice
    BY DeepPricesKnown
  <2>4. Ordered(t) /\ t.deep_price = d /\ t.pay_with_deep = pay
    BY <1>1, <2>1, <2>3 DEF Ordered, TakerOK
  <2>5. PlaceOrder(t)
    BY <2>2
  <2> HIDE DEF t
  <2> QED BY <2>4, <2>5 DEF Placed
<1> QED BY <1>2, <1>3

(* Every step keeps the invariant, and either places an order or only moves *)
(* what was owed before.                                                    *)
LEMMA EveryStep ==
    ASSUME IInv, [Next]_vars
    PROVE  IInv' /\ (Refunded \/ Placed)
<1>1. now \in Nat
  BY DEF IInv, RestInv
<1>2. ASSUME NEW u \in Users, NEW is_bid \in BOOLEAN, NEW price \in Prices,
             NEW quantity \in Quantities, NEW type \in Types, NEW option \in Options,
             NEW pay \in PayWithDeep, NEW expire \in Expiries,
             PlaceLimitOrder(u, is_bid, price, quantity, type, option, pay, expire)
      PROVE  Placed
  BY <1>1, <1>2, OrdersPlaced
<1>3. ASSUME NEW u \in Users, NEW is_bid \in BOOLEAN, NEW quantity \in Quantities,
             NEW option \in Options, NEW pay \in PayWithDeep,
             PlaceMarketOrder(u, is_bid, quantity, option, pay)
      PROVE  Placed
  BY <1>1, <1>3, OrdersPlaced
<1>4. Placed => IInv'
  BY PlaceStep DEF Placed
<1>5. ASSUME NEW u \in Users, NEW k \in DOMAIN book, NEW quantity \in Quantities,
             ModifyOrder(u, k, quantity)
      PROVE  IInv' /\ Refunded
  <2>1. quantity \in Nat
    BY PoolAssumption
  <2> QED BY <1>5, <2>1, ModifyStep
<1>6. ASSUME NEW u \in Users,
             (\E orders \in SUBSET DOMAIN book : CancelOrders(u, orders)) \/ CancelAllOrders(u)
      PROVE  IInv' /\ Refunded
  <2>1. PICK orders : CancelOrders(u, orders)
    BY <1>6 DEF CancelAllOrders
  <2> QED BY <2>1, CancelStep
<1>7. ASSUME NEW u \in Users,
             WithdrawSettledAmounts(u) \/ WithdrawSettledAmountsPermissionless(u)
      PROVE  IInv' /\ Refunded
  <2>1. WithdrawSettledAmounts(u)
    BY <1>7 DEF WithdrawSettledAmountsPermissionless
  <2> QED BY <2>1, WithdrawStep
<1>8. ASSUME NEW params \in TradeParams, Vote(params)
      PROVE  IInv' /\ Refunded
  BY <1>8, VoteStep
<1>9. ASSUME \/ ClaimPoolReferralRewards \/ Tick \/ NextEpoch \/ UNCHANGED vars
             \/ \E enable \in BOOLEAN : EnableEwmaState(enable)
      PROVE  IInv' /\ Refunded
  BY <1>9, OtherStep
<1> QED BY <1>2, <1>3, <1>4, <1>5, <1>6, <1>7, <1>8, <1>9 DEF Next

-----------------------------------------------------------------------------
(* The theorems. *)

(* The inductive invariant holds in every reachable state of a pool.        *)
THEOREM Invariance == Spec => []IInv
<1>1. Init => IInv
  BY StartsWithIt
<1>2. IInv /\ [Next]_vars => IInv'
  BY EveryStep
<1> QED BY <1>1, <1>2, PTL DEF Spec

(* In every state the book is uncrossed, no order in it is used up, and     *)
(* the open orders of an account are its orders in the book, whatever the   *)
(* number of accounts, orders, fills, epochs and whatever the rates.        *)
THEOREM BookAlwaysSound == Spec => []BookIsSound
  BY Invariance, Implied, PTL

(* An owner can cancel any of its orders at any time: its epoch is known to *)
(* the history and the vault holds the refund, although fees may have been  *)
(* recorded in an asset they were not paid in (cancel_order).               *)
THEOREM CancelsNeverAbort == Spec => []CancelNeverAborts
  BY Invariance, CancelCompletesAlways, PTL

-----------------------------------------------------------------------------
(* Price-time priority. *)

(* Order IDs order a side by price and then by arrival (encode_order_id).   *)
LEMMA PriorityIsAhead ==
    ASSUME BookOK(book), NEW j \in DOMAIN book, NEW k \in DOMAIN book, HasPriority(j, k)
    PROVE  /\ Ahead(book[j], book[k]) /\ book[j].is_bid = book[k].is_bid
           /\ book[j] \in Order /\ book[k] \in Order
<1>1. book[j] \in Order /\ book[k] \in Order
  BY DEF BookOK
<1>2. /\ book[j].is_bid \in BOOLEAN /\ book[k].is_bid = book[j].is_bid
      /\ book[j].price \in Nat /\ book[k].price \in Nat
      /\ book[j].seq \in Nat /\ book[k].seq \in Nat
  BY <1>1, OrderFields DEF HasPriority
<1>3. j < k => IF book[k].is_bid THEN book[k].seq < book[j].seq
                                 ELSE book[j].seq < book[k].seq
  BY <1>2 DEF BookOK
<1>4. \/ IF book[j].is_bid THEN book[j].price > book[k].price
                           ELSE book[j].price < book[k].price
      \/ book[j].price = book[k].price /\ j < k
  BY DEF HasPriority
<1>5. Ahead(book[j], book[k])
  BY <1>2, <1>3, <1>4 DEF Ahead, SmallerId
<1> QED BY <1>1, <1>2, <1>5

(* An order that is filled or removed was passed by the scan, and with it   *)
(* all orders ahead of it; those are gone (match_against_book).             *)
LEMMA PlacedInPriority ==
    ASSUME IInv, NEW t, Ordered(t), PlaceOrder(t),
           NEW j \in DOMAIN book, NEW k \in DOMAIN book, HasPriority(j, k), Hit(k)
    PROVE  j \notin DOMAIN book'
<1> DEFINE m == match_against_book(book, t, now)
<1>1. BookOK(book) /\ CountersOK(book, nextBid, nextAsk) /\ TakerOK(t)
  BY DEF IInv, BookInv, Ordered
<1>2. book' = IF Rests(t, m) THEN With(m.book, Arrivals + 1, ToOrder(t, m)) ELSE m.book
  BY DEF PlaceOrder
<1>3. Matched(book, t, m)
  BY <1>1, MatchResult
<1> HIDE DEF m
<1>4. BookMatched(book, t, m) /\ InPriority(book, t, m)
  BY <1>3 DEF Matched
<1>5. \A i \in DOMAIN book : i # Arrivals + 1
  <2>1. \A i \in DOMAIN book : i \in Int /\ i <= Arrivals
    BY <1>1 DEF CountersOK, Arrivals, BookOK
  <2>2. Arrivals \in Int
    BY <1>1, PoolAssumption DEF CountersOK, Arrivals
  <2> QED BY <2>1, <2>2
<1>6. \A i \in DOMAIN book :
         /\ i \in DOMAIN book' <=> i \in DOMAIN m.book
         /\ i \in DOMAIN m.book => book'[i] = m.book[i]
  BY <1>2, <1>5 DEF With
<1>7. k \in Passed(book, t, m)
  <2> SUFFICES ASSUME k \notin Passed(book, t, m) PROVE FALSE
    OBVIOUS
  <2>1. k \in DOMAIN m.book /\ m.book[k] = book[k]
    BY <1>4 DEF BookMatched
  <2>2. book'[k] = book[k] /\ k \in DOMAIN book'
    BY <1>6, <2>1
  <2>3. book[k].filled > book[k].filled
    BY <2>2 DEF Hit
  <2>4. book[k].filled \in Nat
    BY <1>1, OrderFields DEF BookOK
  <2> QED BY <2>3, <2>4
<1>8. /\ Ahead(book[j], book[k]) /\ book[j].is_bid = book[k].is_bid
      /\ book[j] \in Order /\ book[k] \in Order
  BY <1>1, PriorityIsAhead
<1>9. ~ Ahead(book[k], book[j])
  BY <1>8, AheadOneWay
<1>10. j \in Opposite(book, t)
  BY <1>7, <1>8 DEF Passed, Opposite, Side
<1>11. j \in Passed(book, t, m)
  BY <1>4, <1>7, <1>9, <1>10 DEF InPriority, Passed
<1>12. j \notin DOMAIN m.book
  BY <1>4, <1>7, <1>8, <1>11 DEF InPriority
<1> QED BY <1>6, <1>12

(* Fills follow price and then time: when an order is placed and another    *)
(* one is filled or removed, every order with priority over it is gone      *)
(* (match_against_book over the order IDs of encode_order_id).              *)
THEOREM FillsFollowPriority == Spec => PriceTimePriority
<1> DEFINE InTurn ==
      nextBid' # nextBid \/ nextAsk' # nextAsk =>
          \A j, k \in DOMAIN book : HasPriority(j, k) /\ Hit(k) => j \notin DOMAIN book'
<1>1. IInv /\ [Next]_vars => InTurn
  <2> SUFFICES ASSUME IInv, [Next]_vars, nextBid' # nextBid \/ nextAsk' # nextAsk
               PROVE  \A j, k \in DOMAIN book :
                         HasPriority(j, k) /\ Hit(k) => j \notin DOMAIN book'
    OBVIOUS
  <2>1. Refunded \/ Placed
    BY EveryStep
  <2>2. Placed
    BY <2>1 DEF Refunded
  <2>3. PICK t : Ordered(t) /\ PlaceOrder(t)
    BY <2>2 DEF Placed
  <2> QED BY <2>3, PlacedInPriority
<1>2. IInv /\ [Next]_vars => [InTurn]_vars
  BY <1>1
<1> QED BY <1>2, Invariance, PTL DEF Spec, PriceTimePriority

-----------------------------------------------------------------------------
(* Solvency. *)

(* Where the asset of a fee and the asset it is recorded in agree: DEEP is  *)
(* never priced at zero, and the pools without fees have no penalty either. *)
(* Without it the recorded fees may be in an asset the vault does not hold. *)
FeesInOneAsset ==
    /\ \A p \in OrderDeepPrices : p.deep_per_asset > 0
    /\ "whitelisted" \notin EwmaKinds

(* A whitelisted pool without a penalty charges takers nothing.             *)
LEMMA NothingCharged ==
    ASSUME IInv, FeesInOneAsset, kind = "whitelisted", NEW rate \in TakerFees
    PROVE  rate = 0
<1>1. RestInv /\ FeesOK(gov, history, epoch)
  BY DEF IInv, FeeInv
<1>2. /\ gov.trade_params.taker_fee = 0 /\ gov.next_trade_params.taker_fee = 0 /\ ~ ewma
      /\ gov \in [epoch : Nat, trade_params : Params, next_trade_params : Params]
  BY <1>1 DEF RestInv, FeesOK, FeesInOneAsset
<1>3. G.trade_params \in {gov.trade_params, gov.next_trade_params}
  BY <1>2 DEF G, update_governance
<1>4. G.trade_params.taker_fee = 0
  BY <1>2, <1>3
<1>5. 0 \div 2 = 0
  OBVIOUS
<1> QED BY <1>2, <1>4, <1>5 DEF TakerFees

(* The fee of a taker is recorded in the asset it is paid in                *)
(* (calculate_partial_fill_balances, paid_fees_balances).                   *)
LEMMA RecordedAsPaid ==
    ASSUME IInv, FeesInOneAsset, NEW t, Ordered(t),
           t.deep_price \in DeepPricesFor(t.pay_with_deep),
           NEW a \in Nat, NEW q \in Nat, NEW rate \in TakerFees, NEW x \in Assets
    PROVE  paid_fees_balances(t, FeeOf(t, a, q, rate))[x] <= FeeOf(t, a, q, rate)[x]
<1> DEFINE base == fee_quantity(t.deep_price, a, q, t.is_bid)
           fee == FeeOf(t, a, q, rate)
<1>1. /\ rate \in Nat /\ t.deep_price \in OrderDeepPrice /\ t.is_bid \in BOOLEAN
      /\ t.pay_with_deep \in BOOLEAN
  BY TakerRates DEF IInv, Ordered, TakerOK
<1>2. fee \in BalanceSheets
  BY <1>1, FeeSheet
<1>3. base \in BalanceSheets
      /\ IF t.deep_price.deep_per_asset > 0
         THEN base["base"] = 0 /\ base["quote"] = 0
         ELSE IF t.is_bid THEN base["base"] = 0 /\ base["deep"] = 0
                          ELSE base["quote"] = 0 /\ base["deep"] = 0
  <2> DEFINE d == t.deep_price.deep_per_asset
             v == mul(IF t.deep_price.asset_is_base THEN a ELSE q, d)
             b == mul(a, PenaltyMultiplier)
             c == mul(q, PenaltyMultiplier)
  <2>1. d \in Nat /\ t.deep_price.asset_is_base \in BOOLEAN /\ PenaltyMultiplier \in Nat
    BY <1>1, BookAssumption DEF OrderDeepPrice
  <2>2. v \in Nat /\ b \in Nat /\ c \in Nat /\ 0 \in Nat
    <3> HIDE DEF d
    <3> QED BY <2>1, MulBounds
  <2>3. base = IF d > 0 THEN new(0, 0, v) ELSE IF t.is_bid THEN new(0, c, 0) ELSE new(b, 0, 0)
    BY DEF fee_quantity
  <2> HIDE DEF base, v, b, c
  <2> QED BY <2>2, <2>3, NewSheet
<1>4. \A y \in Assets : fee[y] = mul(base[y], rate) /\ base[y] \in Nat
  BY <1>1, <1>3, MulSheet DEF FeeOf, BalanceSheets
<1> HIDE DEF base, fee
<1>5. /\ "base" \in Assets /\ "quote" \in Assets /\ "deep" \in Assets
      /\ x = "base" \/ x = "quote" \/ x = "deep"
  BY DEF Assets
<1>6. fee["base"] \in Nat /\ fee["quote"] \in Nat /\ fee["deep"] \in Nat /\ 0 \in Nat
  BY <1>2, <1>5 DEF BalanceSheets
<1>7. \A y \in Assets : base[y] = 0 => fee[y] = 0
  BY <1>1, <1>4, MulZero
<1>8. CASE t.deep_price.deep_per_asset > 0
  <2>1. fee["base"] = 0 /\ fee["quote"] = 0
    BY <1>3, <1>5, <1>7, <1>8
  <2>2. t.pay_with_deep
    BY <1>8 DEF DeepPricesFor, EmptyDeepPrice
  <2>3. paid_fees_balances(t, fee) = new(0, 0, fee["deep"])
    BY <2>1, <2>2 DEF paid_fees_balances, non_zero_value
  <2> QED BY <1>5, <1>6, <2>1, <2>3, NewSheet DEF fee
<1>9. CASE ~ (t.deep_price.deep_per_asset > 0) /\ ~ t.pay_with_deep
  <2>1. CASE t.is_bid
    <3>1. fee["base"] = 0 /\ fee["deep"] = 0
      BY <1>3, <1>5, <1>7, <1>9, <2>1
    <3>2. non_zero_value(fee) = fee["quote"]
      BY <1>6, <3>1 DEF non_zero_value
    <3>3. paid_fees_balances(t, fee) = new(0, fee["quote"], 0)
      BY <1>9, <2>1, <3>2 DEF paid_fees_balances
    <3> QED BY <1>5, <1>6, <3>1, <3>3, NewSheet DEF fee
  <2>2. CASE ~ t.is_bid
    <3>1. fee["quote"] = 0 /\ fee["deep"] = 0
      BY <1>3, <1>5, <1>7, <1>9, <2>2
    <3>2. non_zero_value(fee) = fee["base"]
      BY <1>6, <3>1 DEF non_zero_value
    <3>3. paid_fees_balances(t, fee) = new(fee["base"], 0, 0)
      BY <1>9, <2>2, <3>2 DEF paid_fees_balances
    <3> QED BY <1>5, <1>6, <3>1, <3>3, NewSheet DEF fee
  <2> QED BY <1>1, <2>1, <2>2
<1>10. CASE ~ (t.deep_price.deep_per_asset > 0) /\ t.pay_with_deep
  <2>1. kind = "whitelisted"
    BY <1>10 DEF DeepPricesFor, FeesInOneAsset
  <2>2. rate = 0
    BY <2>1, NothingCharged
  <2>3. fee["base"] = 0 /\ fee["quote"] = 0 /\ fee["deep"] = 0
    BY <1>4, <1>5, <2>2, MulZero
  <2>4. paid_fees_balances(t, fee) = new(0, 0, 0)
    BY <1>10, <2>3 DEF paid_fees_balances, non_zero_value
  <2> QED BY <1>5, <1>6, <2>3, <2>4, NewSheet DEF fee
<1> QED BY <1>1, <1>8, <1>9, <1>10

(* No step lets the vault owe more than it holds.                           *)
LEMMA SolventStep ==
    ASSUME FeesInOneAsset, IInv, Solvent, [Next]_vars
    PROVE  Solvent'
<1>1. IInv' /\ (Refunded \/ Placed)
  BY EveryStep
<1>2. \A x \in Assets : SettledIn(accounts, x) + LockedIn(book, history, x) + fees[x] <= vault[x]
  BY DEF Solvent, Owed, Settled, Locked, SettledIn, LockedIn, SettledOf, Locks
<1>3. ASSUME NEW x \in Assets
      PROVE  /\ SettledIn(accounts, x) \in Nat /\ LockedIn(book, history, x) \in Nat
             /\ fees[x] \in Nat /\ vault[x] \in Nat
  BY SumsKnown
<1>4. ASSUME NEW x \in Assets
      PROVE  /\ SettledIn(accounts', x) \in Nat /\ LockedIn(book', history', x) \in Nat
             /\ fees'[x] \in Nat /\ vault'[x] \in Nat
  <2>1. MoneyInv' /\ BookInv' /\ FeeInv'
    BY <1>1 DEF IInv
  <2>2. RatesOK(book', history') /\ BookOK(book')
    BY <2>1 DEF BookInv, FeeInv, FeesOK, EpochsKnown, RatesOK, historic_maker_fee
  <2>3. AccountsOK(accounts') /\ fees'[x] \in Nat /\ vault'[x] \in Nat
    BY <2>1 DEF MoneyInv, BalanceSheets
  <2> QED BY <2>2, <2>3, LocksFacts, SettledFacts
<1>5. ASSUME NEW x \in Assets
      PROVE  SettledIn(accounts', x) + LockedIn(book', history', x) + fees'[x] <= vault'[x]
  <2> DEFINE sa == SettledIn(accounts, x)
             sc == SettledIn(accounts', x)
             lb == LockedIn(book, history, x)
             lc == LockedIn(book', history', x)
             f == fees[x]
             g == fees'[x]
             v == vault[x]
             w == vault'[x]
  <2>1. /\ sa \in Nat /\ lb \in Nat /\ f \in Nat /\ v \in Nat /\ sa + lb + f <= v
        /\ sc \in Nat /\ lc \in Nat /\ g \in Nat /\ w \in Nat
    BY <1>2, <1>3, <1>4
  <2>2. CASE Refunded
    <3>1. sc + lc + v <= w + sa + lb /\ g = f
      BY <2>2 DEF Refunded, OwesLess
    <3> HIDE DEF sa, sc, lb, lc, f, g, v, w
    <3>2. sc + lc + g <= w
      BY <2>1, <3>1
    <3> QED BY <3>2 DEF sc, lc, g, w
  <2>3. CASE Placed
    <3>1. PICK t : Ordered(t) /\ t.deep_price \in DeepPricesFor(t.pay_with_deep) /\ PlaceOrder(t)
      BY <2>3 DEF Placed
    <3>2. PICK rate, z : FeeRecorded(t, rate, z)
      BY <3>1, PlaceStep
    <3> DEFINE m == match_against_book(book, t, now)
               fee == FeeOf(t, m.executed, m.quote, rate)
               p == paid_fees_balances(t, fee)
               c == fee[x]
               y == z[x]
               r == p[x]
    <3>3. /\ rate \in TakerFees /\ z \in BalanceSheets /\ fee \in BalanceSheets
          /\ fees' = add_balances(z, p)
          /\ sc + lc + y + c + v <= w + sa + lb + f
      BY <3>2 DEF FeeRecorded
    <3>4. m.executed \in Nat /\ m.quote \in Nat
      <4>1. BookOK(book) /\ TakerOK(t)
        BY <3>1 DEF IInv, BookInv, Ordered
      <4>2. Matched(book, t, m)
        BY <4>1, MatchResult
      <4> QED BY <4>2 DEF Matched
    <3> HIDE DEF m
    <3>5. r <= c
      BY <3>1, <3>3, <3>4, RecordedAsPaid
    <3>6. p \in BalanceSheets
      BY <3>1, <3>3, RecordedFees DEF Ordered
    <3> HIDE DEF fee, p
    <3>7. g = y + r /\ y \in Nat /\ r \in Nat /\ c \in Nat
      BY <3>3, <3>6, AddSheets DEF BalanceSheets
    <3> HIDE DEF sa, sc, lb, lc, f, g, v, w, c, y, r
    <3>8. sc + lc + g <= w
      BY <2>1, <3>3, <3>5, <3>7
    <3> QED BY <3>8 DEF sc, lc, g, w
  <2> QED BY <1>1, <2>2, <2>3
<1> QED BY <1>5 DEF Solvent, Owed, Settled, Locked, SettledIn, LockedIn, SettledOf, Locks

(* The vault covers settled balances, locked orders and recorded fees in    *)
(* every state, whatever rounding, partial fills, expiry, modifications and *)
(* changes of the rates did, where fees are recorded in the asset they are  *)
(* paid in; with a DEEP price of zero it does not (paid_fees_balances).     *)
THEOREM AlwaysSolvent == ASSUME FeesInOneAsset PROVE Spec => []Solvent
<1>1. Init => IInv /\ Solvent
  <2> SUFFICES ASSUME Init PROVE IInv /\ Solvent
    OBVIOUS
  <2>1. IInv
    BY StartsWithIt
  <2>2. fees = Nothing
    BY DEF Init
  <2>3. ASSUME NEW x \in Assets
        PROVE  SettledIn(accounts, x) + LockedIn(book, history, x) + fees[x] <= vault[x]
    <3>1. SettledIn(accounts, x) + LockedIn(book, history, x) <= vault[x]
      BY <2>1 DEF IInv, MoneyInv, Covered
    <3>2. fees[x] = 0
      BY <2>2, NothingSheet
    <3> DEFINE a == SettledIn(accounts, x)
               b == LockedIn(book, history, x)
    <3>3. a \in Nat /\ b \in Nat /\ vault[x] \in Nat
      BY <2>1, SumsKnown
    <3> HIDE DEF a, b
    <3>4. a + b + 0 <= vault[x]
      BY <3>1, <3>3 DEF a, b
    <3> QED BY <3>2, <3>4 DEF a, b
  <2> QED BY <2>1, <2>3
          DEF Solvent, Owed, Settled, Locked, SettledIn, LockedIn, SettledOf, Locks
<1>2. IInv /\ Solvent /\ [Next]_vars => IInv' /\ Solvent'
  BY EveryStep, SolventStep
<1> QED BY <1>1, <1>2, PTL DEF Spec

-----------------------------------------------------------------------------
(* The promise of governance, as trading keeps it. *)

(* The lazy update is the one of EpochParams.                               *)
LEMMA UpdatedAsPromised ==
    ASSUME FeesOK(gov, history, epoch)
    PROVE  /\ G = EP!Updated
           /\ G \in [epoch : Nat, trade_params : Params, next_trade_params : Params]
<1>1. /\ gov \in [epoch : Nat, trade_params : Params, next_trade_params : Params]
      /\ epoch \in Nat
  BY DEF FeesOK
<1> DEFINE e == gov.epoch
           p == gov.trade_params
           q == gov.next_trade_params
<1>2. gov = [epoch |-> e, trade_params |-> p, next_trade_params |-> q]
  BY <1>1
<1>3. e \in Nat /\ p \in Params /\ q \in Params
  BY <1>1
<1>4. G = IF e = epoch THEN gov ELSE [gov EXCEPT !.epoch = epoch, !.trade_params = q]
  BY DEF G, update_governance
<1>5. EP!Updated = IF e = epoch THEN gov
                   ELSE [epoch |-> epoch, trade_params |-> q, next_trade_params |-> q]
  BY DEF EP!Updated
<1>6. CASE e = epoch
  BY <1>1, <1>4, <1>5, <1>6
<1>7. CASE e # epoch
  <2>1. G \in [epoch : Nat, trade_params : Params, next_trade_params : Params]
    BY UpdatedFees DEF FeesOK
  <2>2. G.epoch = epoch /\ G.trade_params = q /\ G.next_trade_params = q
    BY <1>1, <1>4, <1>7
  <2>3. G = [epoch |-> G.epoch, trade_params |-> G.trade_params,
             next_trade_params |-> G.next_trade_params]
    BY <2>1
  <2> HIDE DEF e, p, q
  <2>4. EP!Updated = [epoch |-> epoch, trade_params |-> q, next_trade_params |-> q]
    BY <1>5, <1>7
  <2> QED BY <2>1, <2>2, <2>3, <2>4
<1> QED BY <1>6, <1>7

(* What a step does to the parameters.                                      *)
LEMMA ParamsStep ==
    ASSUME IInv, [Next]_vars
    PROVE  \/ gov' = G /\ epoch' = epoch
           \/ \E params \in TradeParams :
                 gov' = [G EXCEPT !.next_trade_params = params] /\ epoch' = epoch
           \/ UNCHANGED <<gov, epoch>>
           \/ epoch' = epoch + 1 /\ gov' = gov
<1>1. now \in Nat
  BY DEF IInv, RestInv
<1>2. ASSUME Placed
      PROVE  gov' = G /\ epoch' = epoch
  BY <1>2 DEF Placed, PlaceOrder
<1>3. ASSUME NEW u \in Users, NEW is_bid \in BOOLEAN, NEW price \in Prices,
             NEW quantity \in Quantities, NEW type \in Types, NEW option \in Options,
             NEW pay \in PayWithDeep, NEW expire \in Expiries,
             PlaceLimitOrder(u, is_bid, price, quantity, type, option, pay, expire)
      PROVE  Placed
  BY <1>1, <1>3, OrdersPlaced
<1>4. ASSUME NEW u \in Users, NEW is_bid \in BOOLEAN, NEW quantity \in Quantities,
             NEW option \in Options, NEW pay \in PayWithDeep,
             PlaceMarketOrder(u, is_bid, quantity, option, pay)
      PROVE  Placed
  BY <1>1, <1>4, OrdersPlaced
<1>5. ASSUME NEW u \in Users, NEW k \in DOMAIN book, NEW quantity \in Quantities,
             ModifyOrder(u, k, quantity)
      PROVE  gov' = G /\ epoch' = epoch
  BY <1>5 DEF ModifyOrder
<1>6. ASSUME NEW u \in Users,
             (\E orders \in SUBSET DOMAIN book : CancelOrders(u, orders)) \/ CancelAllOrders(u)
      PROVE  gov' = G /\ epoch' = epoch
  BY <1>6 DEF CancelAllOrders, CancelOrders
<1>7. ASSUME NEW u \in Users,
             WithdrawSettledAmounts(u) \/ WithdrawSettledAmountsPermissionless(u)
      PROVE  UNCHANGED <<gov, epoch>>
  BY <1>7 DEF WithdrawSettledAmountsPermissionless, WithdrawSettledAmounts
<1>8. ASSUME NEW params \in TradeParams, Vote(params)
      PROVE  gov' = [G EXCEPT !.next_trade_params = params] /\ epoch' = epoch
  BY <1>8 DEF Vote
<1>9. ASSUME \/ ClaimPoolReferralRewards \/ Tick \/ UNCHANGED vars
             \/ \E enable \in BOOLEAN : EnableEwmaState(enable)
      PROVE  UNCHANGED <<gov, epoch>>
  BY <1>9 DEF ClaimPoolReferralRewards, Tick, EnableEwmaState, vars
<1>10. ASSUME NextEpoch
       PROVE  epoch' = epoch + 1 /\ gov' = gov
  BY <1>10 DEF NextEpoch
<1> QED BY <1>2, <1>3, <1>4, <1>5, <1>6, <1>7, <1>8, <1>9, <1>10 DEF Next

(* Trading sees parameters that are fixed for the epoch and change only to  *)
(* those announced before, as Governance promises (Governance.update).      *)
THEOREM ParamsAsPromised == Spec => ImplementsEpochParams
<1>1. Init => EP!Init
  <2> SUFFICES ASSUME Init PROVE EP!Init
    OBVIOUS
  <2>1. epoch = 0
    BY DEF Init
  <2>2. PICK p \in InitialParams(kind) :
           gov = [epoch |-> 0, trade_params |-> p, next_trade_params |-> p]
    BY DEF Init
  <2>3. gov.trade_params = p
    BY <2>2
  <2>4. p \in Params
    BY PoolAssumption DEF InitialParams, Params
  <2> QED BY <2>1, <2>2, <2>3, <2>4 DEF EP!Init
<1>2. IInv /\ [Next]_vars => [EP!Next]_(EP!vars)
  <2> SUFFICES ASSUME IInv, [Next]_vars PROVE [EP!Next]_(EP!vars)
    OBVIOUS
  <2>1. FeesOK(gov, history, epoch)
    BY DEF IInv, FeeInv
  <2>2. G = EP!Updated /\ G \in [epoch : Nat, trade_params : Params, next_trade_params : Params]
    BY <2>1, UpdatedAsPromised
  <2>3. CASE gov' = G /\ epoch' = epoch
    <3>1. gov'.next_trade_params \in Params
      BY <2>2, <2>3
    <3>2. gov' = [G EXCEPT !.next_trade_params = gov'.next_trade_params]
      BY <2>2, <2>3
    <3> QED BY <2>2, <2>3, <3>1, <3>2 DEF EP!Next, EP!Handler
  <2>4. ASSUME NEW params \in TradeParams,
               gov' = [G EXCEPT !.next_trade_params = params], epoch' = epoch
        PROVE  EP!Next
    <3>1. gov'.next_trade_params = params /\ params \in Params
      BY <2>2, <2>4, PoolAssumption
    <3>2. gov' = [G EXCEPT !.next_trade_params = gov'.next_trade_params]
      BY <2>4, <3>1
    <3> QED BY <2>2, <2>4, <3>1, <3>2 DEF EP!Next, EP!Handler
  <2>5. CASE UNCHANGED <<gov, epoch>>
    BY <2>5 DEF EP!vars
  <2>6. CASE epoch' = epoch + 1 /\ gov' = gov
    BY <2>6 DEF EP!Next, EP!NextEpoch
  <2> QED BY <2>3, <2>4, <2>5, <2>6, ParamsStep
<1> QED BY <1>1, <1>2, Invariance, PTL DEF Spec, ImplementsEpochParams, EP!Spec
=============================================================================
