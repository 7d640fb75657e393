----------------------------- MODULE MCHistory ------------------------------
(***************************************************************************)
(* The parts of a pool's state beside its orders and its governance, for    *)
(* TLC.  They do not share state, so a behaviour works on one of them and   *)
(* leaves the others as they began:                                         *)
(*   "stakes"  rebates while the stake that is required changes;            *)
(*   "late"    rebates over one more epoch, which accounts come back late to;*)
(*   "median"  median on every vector of at most MaxLen values up to        *)
(*             MaxValue, grown as median_vec is in update_historic_median;  *)
(*   "prices"  the price points of DEEP.                                    *)
(***************************************************************************)
EXTENDS History

CONSTANTS MaxLen, MaxValue

VARIABLES
    part,
    median_vec,
    now, prices, cumulative, log                     \* DeepPrice

priceVars == <<now, prices, cumulative, log>>

MCMakerFees == {new(0, 0, 3)}
MCTakerFees == {new(0, 5, 4)}

-----------------------------------------------------------------------------
Late == INSTANCE History WITH StakeRequired <- {1}, MaxStake <- 1

Price == INSTANCE DeepPrice WITH
    MinDuration <- 1, MaxAge <- 5, MaxDataPoints <- 2, MidPrices <- {3, 5}, MaxTime <- 8

ASSUME MCHistoryAssumption ==
    /\ HistoryAssumption /\ Late!HistoryAssumption /\ Price!DeepPriceAssumption
    /\ MaxLen \in Nat /\ MaxValue \in Nat

push_back(x) ==
    /\ Len(median_vec) < MaxLen
    /\ median_vec' = Append(median_vec, x)

MCInit ==
    /\ \/ part = "stakes" /\ Init
       \/ part \in {"late", "median", "prices"} /\ Late!Init
    /\ median_vec = <<>>
    /\ Price!Init

MCNext ==
    \/ part = "stakes" /\ Next /\ epoch' < MaxEpoch /\ UNCHANGED <<part, median_vec, priceVars>>
    \/ part = "late" /\ Late!Next /\ UNCHANGED <<part, median_vec, priceVars>>
    \/ /\ part = "median" /\ \E x \in 0..MaxValue : push_back(x)
       /\ UNCHANGED <<part, vars, priceVars>>
    \/ part = "prices" /\ Price!Next /\ UNCHANGED <<part, vars, median_vec>>

MCSpec == MCInit /\ [][MCNext]_<<part, vars, median_vec, priceVars>>

-----------------------------------------------------------------------------
(* The value with k values before it in every sorted order of v.             *)
OfRank(v, k) ==
    CHOOSE x \in 0..MaxValue :
        /\ Cardinality({i \in DOMAIN v : v[i] < x}) <= k
        /\ k < Cardinality({i \in DOMAIN v : v[i] <= x})

(* median returns the value in the middle, or the mean of the two in the     *)
(* middle rounded down, whatever the order and the repetitions of the values *)
(* (quick_sort, median); 0 for no value.                                     *)
MedianIsMiddle ==
    LET n == Len(median_vec)
    IN  median(median_vec) =
          IF n = 0
          THEN 0
          ELSE (OfRank(median_vec, (n - 1) \div 2) + OfRank(median_vec, n \div 2)) \div 2

(* PriceIsRecentMean of DeepPrice: a window is what should be left of all    *)
(* the points ever added and the price of an order is the mean of the recent *)
(* ones, so the running sum has not drifted from the window                  *)
(* (add_price_point, calculate_order_deep_price).                            *)
PriceIsRecentMean == Price!TypeOK /\ Price!WindowIsRecent /\ Price!PriceIsRecentMean
=============================================================================
