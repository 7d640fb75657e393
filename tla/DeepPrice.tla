----------------------------- MODULE DeepPrice ------------------------------
(***************************************************************************)
(* The DEEP price of a pool: the two windows of price points in             *)
(* vault/deep_price.move with their running sums, and add_deep_price_point  *)
(* of pool.move that fills them.  The mid price of the reference pool is an *)
(* input.  Module Pool takes the price of an order as given.                *)
(***************************************************************************)
EXTENDS Integers, Sequences, FiniteSets

CONSTANTS
    Scale,          \* 1_000_000_000 in add_deep_price_point
    MinDuration,    \* MIN_DURATION_BETWEEN_DATA_POINTS_MS
    MaxAge,         \* MAX_DATA_POINT_AGE_MS
    MaxDataPoints,  \* MAX_DATA_POINTS
    MidPrices,      \* mid prices of the reference pool explored
    MaxTime         \* bound on the clock

DeepPriceAssumption ==
    /\ Scale \in Nat \ {0}
    /\ MinDuration \in Nat /\ MaxAge \in Nat
    /\ MaxDataPoints \in Nat \ {0}
    /\ MidPrices \subseteq Nat \ {0}
    /\ MaxTime \in Nat

VARIABLES
    now,         \* clock.timestamp_ms()
    prices,      \* base_prices and quote_prices, by is_base_conversion
    cumulative,  \* cumulative_base and cumulative_quote
    log          \* every point ever added (not in the code)

vars == <<now, prices, cumulative, log>>

Price == [conversion_rate : Nat, timestamp : Nat]

-----------------------------------------------------------------------------
last_insert_timestamp(window) ==
    IF window = <<>> THEN 0 ELSE window[Len(window)].timestamp

(* The condition of the loop.                                                *)
MustDrop(window, timestamp) ==
    \/ Len(window) = MaxDataPoints + 1
    \/ window[1].timestamp + MaxAge < timestamp

(* Mutant of DropOldest: the sum is not adjusted.                            *)
DropOldestOnly(s) == [window |-> Tail(s.window), sum |-> s.sum]

DropOldest(s) ==
    [window |-> Tail(s.window), sum |-> s.sum - s.window[1].conversion_rate]

(* The loop: s holds a window and its sum.                                   *)
DropOld(s, timestamp) ==
    LET Loop[i \in 0..Len(s.window)] ==
            IF i = 0
            THEN s
            ELSE IF MustDrop(Loop[i - 1].window, timestamp)
                 THEN DropOldest(Loop[i - 1])
                 ELSE Loop[i - 1]
    IN  Loop[Len(s.window)]

add_price_point(rate, is_base) ==
    LET point == [conversion_rate |-> rate, timestamp |-> now]
        s == DropOld([window |-> Append(prices[is_base], point),
                      sum |-> cumulative[is_base] + rate], now)
    IN  /\ last_insert_timestamp(prices[is_base]) + MinDuration < now
        /\ prices' = [prices EXCEPT ![is_base] = s.window]
        /\ cumulative' = [cumulative EXCEPT ![is_base] = s.sum]
        /\ log' = [log EXCEPT ![is_base] = Append(@, point)]

(* A reference pool that trades DEEP against the base or the quote asset,    *)
(* with DEEP as its base or as its quote asset.                              *)
AddDeepPricePoint(mid_price, deep_is_base, is_base) ==
    /\ add_price_point(IF deep_is_base THEN (Scale * Scale) \div mid_price ELSE mid_price,
                       is_base)
    /\ UNCHANGED now

Tick ==
    /\ now < MaxTime
    /\ now' = now + 1
    /\ UNCHANGED <<prices, cumulative, log>>

Init ==
    /\ now = 1
    /\ prices = [is_base \in BOOLEAN |-> <<>>]
    /\ cumulative = [is_base \in BOOLEAN |-> 0]
    /\ log = [is_base \in BOOLEAN |-> <<>>]

Next ==
    \/ \E mid_price \in MidPrices, deep_is_base, is_base \in BOOLEAN :
          AddDeepPricePoint(mid_price, deep_is_base, is_base)
    \/ Tick

Spec == Init /\ [][Next]_vars

-----------------------------------------------------------------------------
(* calculate_order_deep_price in a pool that is not whitelisted: the quote   *)
(* window first, the base window when there are no quote points.             *)
HasDataPoints ==
    last_insert_timestamp(prices[TRUE]) > 0 \/ last_insert_timestamp(prices[FALSE]) > 0

asset_is_base == last_insert_timestamp(prices[FALSE]) = 0

deep_per_asset == cumulative[asset_is_base] \div Len(prices[asset_is_base])

-----------------------------------------------------------------------------
(***************************************************************************)
(* Properties                                                               *)
(***************************************************************************)

(* The windows hold price points and the sums never go below zero.           *)
TypeOK ==
    /\ now \in Nat
    /\ \A b \in BOOLEAN :
          /\ \A i \in DOMAIN prices[b] : prices[b][i] \in Price
          /\ cumulative[b] \in Nat

(* A window is what should be left of all the points added: those among the  *)
(* last MAX_DATA_POINTS that were not older than MAX_DATA_POINT_AGE_MS when  *)
(* the last one came (add_price_point).                                      *)
Recent(points) ==
    LET n == Len(points)
        IsRecent(i) == /\ n - i < MaxDataPoints
                       /\ points[n].timestamp <= points[i].timestamp + MaxAge
        first == CHOOSE i \in 1..n : /\ IsRecent(i)
                                     /\ \A j \in 1..n : IsRecent(j) => i <= j
    IN  IF n = 0 THEN <<>> ELSE SubSeq(points, first, n)

WindowIsRecent == \A b \in BOOLEAN : prices[b] = Recent(log[b])

(* The price of an order is the mean of the recent quote points, of the base *)
(* points when no quote point was ever added, and never an error once a      *)
(* point was added: the running sum has not drifted from the window, however *)
(* points came and went (calculate_order_deep_price).                        *)
SumOfRates(points) ==
    LET s[i \in 0..Len(points)] == IF i = 0 THEN 0 ELSE s[i - 1] + points[i].conversion_rate
    IN  s[Len(points)]

PriceIsRecentMean ==
    LET used == Recent(IF log[FALSE] = <<>> THEN log[TRUE] ELSE log[FALSE])
    IN  used # <<>> =>
          /\ HasDataPoints
          /\ prices[asset_is_base] # <<>>
          /\ deep_per_asset = SumOfRates(used) \div Len(used)
=============================================================================
