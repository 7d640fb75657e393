---------------------------- MODULE MCMarginPool ----------------------------
(***************************************************************************)
(* Two explorations of a margin pool of two suppliers and a manager: loans, *)
(* with rates and fees high enough to show at a scale of 10 and a protocol  *)
(* spread that may be set above one, and withdrawals controlled by a        *)
(* limiter that is turned off and on, narrowed and widened.                 *)
(***************************************************************************)
EXTENDS MarginPool

VARIABLE limited    \* whether this is the second

NoLimit == [capacity |-> 2, refill_rate_per_ms |-> 0, enabled |-> FALSE]
Limit(capacity, rate) == [capacity |-> capacity, refill_rate_per_ms |-> rate, enabled |-> TRUE]

Pool(cap, spread, rate_limit) ==
    [supply_cap |-> cap, max_utilization_rate |-> 9, protocol_spread |-> spread,
     min_borrow |-> 1, rate_limit |-> rate_limit]
Rates(base) ==
    [base_rate |-> base, base_slope |-> 5, optimal_utilization |-> 5, excess_slope |-> 10]

MCRisk ==
    [min_borrow_risk_ratio |-> 13, liquidation_risk_ratio |-> 12,
     target_liquidation_risk_ratio |-> 14, user_liquidation_reward |-> 1,
     pool_liquidation_reward |-> 1]
MCInitialConfig == [pool |-> Pool(99, 2, NoLimit), interest |-> Rates(14)]
MCInterestConfigs == {Rates(1)}
(* A spread of one tenth, and one that takes twice the interest.            *)
MCPoolConfigs == {Pool(99, 1, NoLimit), Pool(99, 20, NoLimit)}

Limits == INSTANCE MarginPool WITH
    InitialConfig <- [pool |-> Pool(9, 2, Limit(3, 1)), interest |-> Rates(4)],
    InterestConfigs <- {},
    PoolConfigs <- {Pool(9, 2, Limit(3, 1)), Pool(9, 2, Limit(1, 0)), Pool(9, 2, Limit(4, 2)),
                    Pool(9, 2, [Limit(3, 1) EXCEPT !.enabled = FALSE])},
    SupplyAmounts <- {5}, WithdrawAmounts <- {1, 2, 3}, LoanAmounts <- {}, Coins <- {},
    Wealths <- {0}, MaxReferrals <- 1, MaxTime <- 3, MaxOps <- 4

ASSUME MCMarginPoolAssumption == MarginPoolAssumption /\ Limits!MarginPoolAssumption

PoolInit ==
    \/ limited = FALSE /\ Init
    \/ limited = TRUE /\ Limits!Init

PoolNext ==
    \/ ~limited /\ Next /\ UNCHANGED limited
    \/ limited /\ Limits!Next /\ UNCHANGED limited

PoolSpec == PoolInit /\ [][PoolNext]_<<vars, limited>>
=============================================================================
