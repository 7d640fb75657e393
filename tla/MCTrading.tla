----------------------------- MODULE MCTrading -----------------------------
(***************************************************************************)
(* Three explorations of a pool:                                            *)
(*   "matching"  without fees, three orders of several types, some of which *)
(*               expire, that cancel the taker or the maker when an account *)
(*               meets itself;                                              *)
(*   "queue"     without fees, three plain orders that may trade with their *)
(*               own account and fill one order at a time;                  *)
(*   "fees"      two orders with fees that change between epochs.           *)
(***************************************************************************)
EXTENDS MCPool

VARIABLE part

MCTradeParams == MCNoFees \cup MCFees

Matching == INSTANCE Pool WITH
    InitialFunds <- MCSomeFunds, PoolKinds <- {"whitelisted"}, EwmaKinds <- {},
    TradeParams <- MCNoFees, ReferralMultiplier <- MCNoReferral,
    Prices <- {2, 3}, Quantities <- {1, 2}, Expiries <- {1, 9},
    Types <- {"no_restriction", "fill_or_kill", "post_only"},
    Options <- {"cancel_taker", "cancel_maker"}, PayWithDeep <- {FALSE},
    MaxOrders <- 3, MaxEpoch <- 0

Queue == INSTANCE Pool WITH
    InitialFunds <- MCFewFunds, PoolKinds <- {"whitelisted"}, EwmaKinds <- {},
    TradeParams <- MCNoFees, ReferralMultiplier <- MCNoReferral,
    Prices <- {2, 3}, Quantities <- {1, 3}, Expiries <- {9},
    Types <- {"no_restriction"}, Options <- {"self_matching_allowed"},
    PayWithDeep <- {FALSE}, MaxFills <- 1, MaxOrders <- 3, MaxTime <- 1, MaxEpoch <- 0

Fees == INSTANCE Pool WITH
    InitialFunds <- MCFunds, PoolKinds <- {"other"}, TradeParams <- MCFees,
    Prices <- {3}, Quantities <- {1, 3}, Expiries <- {1}, Types <- {"no_restriction"},
    Options <- {"cancel_maker"}, MaxOrders <- 2

TradingInit ==
    \/ part = "matching" /\ Matching!Init
    \/ part = "queue" /\ Queue!Init
    \/ part = "fees" /\ Fees!Init

TradingNext ==
    \/ part = "matching" /\ Matching!Next /\ UNCHANGED part
    \/ part = "queue" /\ Queue!Next /\ UNCHANGED part
    \/ part = "fees" /\ Fees!Next /\ UNCHANGED part

TradingSpec == TradingInit /\ [][TradingNext]_<<vars, part>>
=============================================================================
