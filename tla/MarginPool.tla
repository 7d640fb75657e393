----------------------------- MODULE MarginPool -----------------------------
(***************************************************************************)
(* A margin pool, which suppliers lend to and margin managers borrow from:  *)
(* margin_pool.move, its margin_state, position_manager, protocol_config    *)
(* and protocol_fees, and the repayment and liquidation of a loan in        *)
(* margin_manager.move.                                                     *)
(*                                                                          *)
(* Suppliers and borrowers hold shares of total_supply and total_borrow.    *)
(* Interest is added to both totals by the next handler that calls          *)
(* State.update, and part of it, the protocol fees, goes to referrals,      *)
(* maintainer and protocol.  Amounts are natural numbers, ratios and rates  *)
(* stand for their quotient by Scale.  A handler that aborts is an action   *)
(* that is not enabled; caps and the registry's version are left out.       *)
(***************************************************************************)
EXTENDS Balances, RateLimiter, Totals, Sequences

CONSTANTS
    Suppliers,         \* supplier caps are numbered 1..Suppliers
    Managers,          \* margin managers are numbered 1..Managers
    Year,              \* margin_constants::year_ms
    MinLiquidationRepay, MaxRiskRatio,      \* margin_constants
    Risk,              \* risk ratios and rewards of the deepbook pool
    InitialConfig,     \* the ProtocolConfig the pool is created with
    InterestConfigs, PoolConfigs,           \* what it may be changed to
    SupplyAmounts, WithdrawAmounts, LoanAmounts, Coins, Wealths, MaxReferrals,
    MaxTime, MaxOps    \* bounds: of the clock, and on the number of calls

VARIABLES
    now,               \* clock.timestamp_ms
    vault,             \* the coins in the pool
    state,             \* margin_state::State
    config,            \* ProtocolConfig: margin_pool_config as pool, interest_config as interest
    fees,              \* ProtocolFees; referrals[1] is the default referral
    positions,         \* PositionManager: shares and referral of each cap
    limiter,           \* RateLimiter
    allowed,           \* whether the deepbook pool is in allowed_deepbook_pools
    loans,             \* each manager's borrowed shares of this pool
    wealth,            \* each manager's assets_in_debt_unit
    flows,             \* what the limiter saw: observed, not part of the pool
    ops                \* calls so far

(* What new_pool_config asserts of the risk ratios and rewards. *)
RiskAssumption ==
    LET both == Scale + Risk.user_liquidation_reward + Risk.pool_liquidation_reward
    IN  /\ Risk \in [min_borrow_risk_ratio : Nat, liquidation_risk_ratio : Nat,
                     target_liquidation_risk_ratio : Nat, user_liquidation_reward : Nat,
                     pool_liquidation_reward : Nat]
        /\ Scale <= Risk.liquidation_risk_ratio
        /\ Risk.liquidation_risk_ratio < Risk.min_borrow_risk_ratio
        /\ Risk.liquidation_risk_ratio < Risk.target_liquidation_risk_ratio
        /\ both <= 2 * Scale /\ both < Risk.target_liquidation_risk_ratio

(* What can be in force: new_interest_config bounds optimal_utilization,     *)
(* new_margin_pool_config_with_rate_limit asserts nothing.                   *)
MarginPoolConfig ==
    [supply_cap : Nat, max_utilization_rate : Nat, protocol_spread : Nat, min_borrow : Nat,
     rate_limit : [capacity : Nat, refill_rate_per_ms : Nat, enabled : BOOLEAN]]

InterestConfig ==
    [base_rate : Nat, base_slope : Nat, optimal_utilization : 0..Scale, excess_slope : Nat]

MarginPoolAssumption ==
    /\ Suppliers \in Nat /\ Managers \in Nat /\ Year \in Nat \ {0}
    /\ MaxRiskRatio \in Nat /\ Scale <= MaxRiskRatio
    /\ Managers > 0 => RiskAssumption
    /\ InitialConfig \in [pool : MarginPoolConfig, interest : InterestConfig]
    /\ InterestConfigs \subseteq InterestConfig /\ PoolConfigs \subseteq MarginPoolConfig
    /\ SupplyAmounts \subseteq Nat /\ WithdrawAmounts \subseteq Nat
    /\ LoanAmounts \subseteq Nat /\ Coins \subseteq Nat /\ Wealths \subseteq Nat

vars == <<now, vault, state, config, fees, positions, limiter, allowed, loans, wealth, flows, ops>>

NoReferral == 0        \* the referral of a cap that never supplied

-----------------------------------------------------------------------------
(* ProtocolConfig and State. *)

interest_rate(c, utilization) ==
    IF utilization < c.optimal_utilization
    THEN mul(utilization, c.base_slope) + c.base_rate
    ELSE c.base_rate + mul(c.optimal_utilization, c.base_slope)
           + mul(utilization - c.optimal_utilization, c.excess_slope)

utilization_rate(s) == IF s.total_supply = 0 THEN 0 ELSE div(s.total_borrow, s.total_supply)

(* The interest since the last update, and the part of it that is fees. *)
Interest(s, c, at) ==
    mul(mul(s.total_borrow, interest_rate(c.interest, utilization_rate(s))),
        div(at - s.last_update_timestamp, Year))

FeesDue(s, c, at) == mul(Interest(s, c, at), c.pool.protocol_spread)

update(s, c, at) ==
    [s EXCEPT !.total_supply = @ + Interest(s, c, at) - FeesDue(s, c, at),
              !.total_borrow = @ + Interest(s, c, at),
              !.last_update_timestamp = at]

supply_ratio(s) == IF s.supply_shares = 0 THEN Scale ELSE div(s.total_supply, s.supply_shares)
borrow_ratio(s) == IF s.borrow_shares = 0 THEN Scale ELSE div(s.total_borrow, s.borrow_shares)

(* What shares are worth now: interest is counted although it is not yet    *)
(* added to the totals.                                                     *)
supply_shares_to_amount(shares) == mul(shares, supply_ratio(update(state, config, now)))
borrow_shares_to_amount(s, shares) == mul_round_up(shares, borrow_ratio(s))

-----------------------------------------------------------------------------
(* ProtocolFees. *)

NewTracker(fees_per_share) ==
    [current_shares |-> 0, last_fees_per_share |-> fees_per_share, unclaimed_fees |-> 0]

increase_fees_accrued(f, accrued) ==
    LET quarter == accrued \div 4
        referral_fees == accrued - 2 * quarter
    IN  IF f.total_shares > 0
        THEN [f EXCEPT !.fees_per_share = @ + div(referral_fees, f.total_shares),
                       !.maintainer_fees = @ + quarter,
                       !.protocol_fees = @ + quarter]
        ELSE [f EXCEPT !.maintainer_fees = @ + quarter + referral_fees \div 2,
                       !.protocol_fees = @ + quarter + referral_fees - referral_fees \div 2]

(* A tracker's fees up to now, claimed or not. *)
Unclaimed(f, r) ==
    LET t == f.referrals[r]
    IN  t.unclaimed_fees + mul(t.current_shares, f.fees_per_share - t.last_fees_per_share)

(* The tracker with these fees in unclaimed_fees. *)
update_unclaimed_fees(f, r) ==
    [f.referrals[r] EXCEPT !.unclaimed_fees = Unclaimed(f, r),
                           !.last_fees_per_share = f.fees_per_share]

(* increase_shares, and decrease_shares with a negative change. *)
change_shares(f, r, change) ==
    [f EXCEPT !.referrals[r] = [update_unclaimed_fees(f, r) EXCEPT !.current_shares = @ + change],
              !.total_shares = @ + change]

-----------------------------------------------------------------------------
(* The state and the fees with the interest up to now. *)
S == update(state, config, now)
F == increase_fees_accrued(fees, FeesDue(state, config, now))

Call == ops < MaxOps /\ ops' = ops + 1

(* Bringing the totals up to date aborts if the fees are more than the      *)
(* supply and the interest, which takes a spread above Scale.               *)
Accrues ==
    FeesDue(state, config, now) <= state.total_supply + Interest(state, config, now)

(* What is observed of the limiter: its deposits and withdrawals, with the  *)
(* limits in force, and when the limits change.                             *)
Flow(in, out) ==
    [at |-> now, in |-> in, out |-> out, capacity |-> limiter.capacity,
     rate |-> limiter.refill_rate_per_ms]

Seen(in, out) == flows' = IF limiter.enabled THEN Append(flows, Flow(in, out)) ELSE flows

(* Mutant of Supply: the shares stay with the previous referral. *)
SupplyKeepsReferral(u, amount, r) ==
    LET shares == div(amount, supply_ratio(S))
        held == positions[u].shares
        previous == IF positions[u].referral = NoReferral THEN r ELSE positions[u].referral
    IN  /\ Call /\ Accrues
        /\ r \in DOMAIN fees.referrals /\ supply_ratio(S) > 0
        /\ S.total_supply + amount <= config.pool.supply_cap
        /\ state' = [S EXCEPT !.supply_shares = @ + shares, !.total_supply = @ + amount]
        /\ positions' = [positions EXCEPT ![u] = [shares |-> held + shares, referral |-> r]]
        /\ fees' = change_shares(F, previous, shares)
        /\ vault' = vault + amount
        /\ limiter' = record_deposit(limiter, amount, now)
        /\ Seen(amount, 0)
        /\ UNCHANGED <<now, config, allowed, loans, wealth>>

Supply(u, amount, r) ==
    LET shares == div(amount, supply_ratio(S))
        held == positions[u].shares
        previous == IF positions[u].referral = NoReferral THEN r ELSE positions[u].referral
    IN  /\ Call /\ Accrues
        /\ r \in DOMAIN fees.referrals /\ supply_ratio(S) > 0
        /\ S.total_supply + amount <= config.pool.supply_cap
        /\ state' = [S EXCEPT !.supply_shares = @ + shares, !.total_supply = @ + amount]
        /\ positions' = [positions EXCEPT ![u] = [shares |-> held + shares, referral |-> r]]
        /\ fees' = change_shares(change_shares(F, previous, -held), r, held + shares)
        /\ vault' = vault + amount
        /\ limiter' = record_deposit(limiter, amount, now)
        /\ Seen(amount, 0)
        /\ UNCHANGED <<now, config, allowed, loans, wealth>>

(* Mutant of SharesToWithdraw: rounded down. *)
SharesToWithdrawDown(held, amount) == mul(held, div(amount, supply_shares_to_amount(held)))

SharesToWithdraw(held, amount) ==
    mul_round_up(held, div_round_up(amount, supply_shares_to_amount(held)))

(* amount is what is asked for, or all there is. *)
Withdraw(u, amount) ==
    LET held == positions[u].shares
        shares == SharesToWithdraw(held, amount)
    IN  /\ Call /\ Accrues
        /\ supply_shares_to_amount(held) > 0
        /\ AllowsWithdrawal(limiter, amount, now)
        /\ shares <= held /\ amount <= vault
        /\ limiter' = check_and_record_withdrawal(limiter, amount, now)
        /\ state' = [S EXCEPT !.supply_shares = @ - shares,
                              !.total_supply = @ - mul(shares, supply_ratio(S))]
        /\ positions' = [positions EXCEPT ![u].shares = @ - shares]
        /\ fees' = change_shares(F, positions[u].referral, -shares)
        /\ vault' = vault - amount
        /\ Seen(0, amount)
        /\ UNCHANGED <<now, config, allowed, loans, wealth>>

MintSupplyReferral ==
    /\ Call
    /\ Len(fees.referrals) < MaxReferrals
    /\ fees' = [fees EXCEPT !.referrals = Append(@, NewTracker(fees.fees_per_share))]
    /\ UNCHANGED <<now, vault, state, config, positions, limiter, allowed, loans, wealth, flows>>

(* withdraw_referral_fees, and for the default referral its admin form. *)
WithdrawReferralFees(r) ==
    /\ Call
    /\ r \in DOMAIN fees.referrals
    /\ Unclaimed(fees, r) <= vault
    /\ vault' = vault - Unclaimed(fees, r)
    /\ fees' = [fees EXCEPT !.referrals[r] =
                               [update_unclaimed_fees(fees, r) EXCEPT !.unclaimed_fees = 0]]
    /\ UNCHANGED <<now, state, config, positions, limiter, allowed, loans, wealth, flows>>

(* withdraw_maintainer_fees and withdraw_protocol_fees. *)
WithdrawFees(whose) ==
    /\ Call
    /\ fees[whose] <= vault
    /\ vault' = vault - fees[whose]
    /\ fees' = [fees EXCEPT ![whose] = 0]
    /\ UNCHANGED <<now, state, config, positions, limiter, allowed, loans, wealth, flows>>

-----------------------------------------------------------------------------
(* Loans. *)

Debt(m) == borrow_shares_to_amount(S, loans[m])

risk_ratio(assets, debt) ==
    IF assets >= mul(debt, MaxRiskRatio) THEN MaxRiskRatio ELSE div(assets, debt)

Borrow(m, amount) ==
    LET shares == div_round_up(amount, borrow_ratio(S))
        s == [S EXCEPT !.borrow_shares = @ + shares, !.total_borrow = @ + amount]
        debt == borrow_shares_to_amount(s, loans[m] + shares)
    IN  /\ Call /\ Accrues
        /\ allowed /\ borrow_ratio(S) > 0
        /\ amount <= vault /\ config.pool.min_borrow <= amount
        /\ utilization_rate(s) <= config.pool.max_utilization_rate
        /\ risk_ratio(wealth[m] + amount, debt) >= Risk.min_borrow_risk_ratio
        /\ state' = s
        /\ fees' = F
        /\ vault' = vault - amount
        /\ loans' = [loans EXCEPT ![m] = @ + shares]
        /\ wealth' = [wealth EXCEPT ![m] = @ + amount]
        /\ UNCHANGED <<now, config, positions, limiter, allowed, flows>>

(* amount is what is asked for, or the manager's balance; more than the     *)
(* debt is not taken.                                                       *)
Repay(m, amount) ==
    LET paid == Lesser(amount, Debt(m))
        shares == mul(loans[m], div(paid, Debt(m)))
    IN  /\ Call /\ Accrues
        /\ loans[m] > 0 /\ Debt(m) > 0 /\ paid <= wealth[m]
        /\ state' = [S EXCEPT !.borrow_shares = @ - shares,
                              !.total_borrow = @ - mul(shares, borrow_ratio(S))]
        /\ fees' = F
        /\ vault' = vault + paid
        /\ loans' = [loans EXCEPT ![m] = @ - shares]
        /\ wealth' = [wealth EXCEPT ![m] = @ - paid]
        /\ UNCHANGED <<now, config, positions, limiter, allowed, flows>>

(* What a liquidation may repay: as much as takes the manager back to the   *)
(* target ratio, and leaves enough for the rewards.                         *)
max_repay(m) ==
    LET both == Scale + Risk.user_liquidation_reward + Risk.pool_liquidation_reward
        missing == mul(Risk.target_liquidation_risk_ratio, Debt(m)) - wealth[m]
        debt_repay == Lesser(div(missing, Risk.target_liquidation_risk_ratio - both), Debt(m))
    IN  div(Lesser(mul(debt_repay, both), wealth[m]), both)

(* Mutant of LiquidatedShares: the whole loan goes also if the assets cover *)
(* it.                                                                      *)
LiquidatedSharesAll(m, repay_amount) ==
    IF repay_amount = max_repay(m) THEN loans[m] ELSE mul(loans[m], div(repay_amount, Debt(m)))

(* All of the loan if the assets do not cover it and were all taken. *)
LiquidatedShares(m, repay_amount) ==
    IF risk_ratio(wealth[m], Debt(m)) < Scale /\ repay_amount = max_repay(m)
    THEN loans[m]
    ELSE mul(loans[m], div(repay_amount, Debt(m)))

(* liquidate, with repay_liquidation: what the coin has over the shares'    *)
(* amount goes to the suppliers, what it lacks is their loss.  A debt of 0, *)
(* or assets above the target, abort in the arithmetic of repay_amount.     *)
Liquidate(m, coin) ==
    LET with_pool == Scale + Risk.pool_liquidation_reward
        repay_amount == Lesser(max_repay(m), div(coin, with_pool))
        paid == mul(repay_amount, with_pool)
        shares == LiquidatedShares(m, repay_amount)
        amount == mul(shares, borrow_ratio(S))
        out == Lesser(mul(repay_amount, with_pool + Risk.user_liquidation_reward), wealth[m])
    IN  /\ Call /\ Accrues
        /\ loans[m] > 0
        /\ risk_ratio(wealth[m], Debt(m)) < Risk.liquidation_risk_ratio
        /\ coin >= MinLiquidationRepay
        /\ Debt(m) > 0 /\ wealth[m] <= mul(Risk.target_liquidation_risk_ratio, Debt(m))
        /\ shares > 0
        /\ amount <= S.total_supply + paid
        /\ state' = [S EXCEPT !.borrow_shares = @ - shares, !.total_borrow = @ - amount,
                              !.total_supply = @ + paid - amount]
        /\ fees' = F
        /\ vault' = vault + paid
        /\ loans' = [loans EXCEPT ![m] = @ - shares]
        /\ wealth' = [wealth EXCEPT ![m] = @ - out]
        /\ UNCHANGED <<now, config, positions, limiter, allowed, flows>>

-----------------------------------------------------------------------------
(* The maintainer. *)

(* Mutant of UpdateInterestParams: interest since the last update at the    *)
(* new rate.                                                                *)
UpdateInterestParamsAtOnce(c) ==
    /\ Call
    /\ c.optimal_utilization <= config.pool.max_utilization_rate
    /\ config' = [config EXCEPT !.interest = c]
    /\ UNCHANGED <<now, vault, state, fees, positions, limiter, allowed, loans, wealth, flows>>

UpdateInterestParams(c) ==
    /\ Call /\ Accrues
    /\ c.optimal_utilization <= config.pool.max_utilization_rate
    /\ config' = [config EXCEPT !.interest = c]
    /\ state' = S /\ fees' = F
    /\ UNCHANGED <<now, vault, positions, limiter, allowed, loans, wealth, flows>>

UpdateMarginPoolConfig(c) ==
    /\ Call /\ Accrues
    /\ config.interest.optimal_utilization <= c.max_utilization_rate
    /\ config' = [config EXCEPT !.pool = c]
    /\ state' = S /\ fees' = F
    /\ limiter' = update_config(limiter, c.rate_limit, now)
    /\ flows' = Append(flows, Flow(0, 0))
    /\ UNCHANGED <<now, vault, positions, allowed, loans, wealth>>

(* enable_deepbook_pool_for_loan and disable_deepbook_pool_for_loan. *)
AllowDeepbookPool ==
    /\ Call
    /\ allowed' = ~allowed
    /\ UNCHANGED <<now, vault, state, config, fees, positions, limiter, loans, wealth, flows>>

-----------------------------------------------------------------------------
Tick ==
    /\ now < MaxTime
    /\ now' = now + 1
    /\ UNCHANGED <<vault, state, config, fees, positions, limiter, allowed, loans, wealth, flows, ops>>

(* Prices move, and a manager trades, deposits or withdraws. *)
Revalue(m, w) ==
    /\ Call
    /\ wealth' = [wealth EXCEPT ![m] = w]
    /\ UNCHANGED <<now, vault, state, config, fees, positions, limiter, allowed, loans, flows>>

Init ==
    /\ now = 0 /\ vault = 0 /\ ops = 0 /\ flows = <<>>
    /\ state = [total_supply |-> 0, total_borrow |-> 0, supply_shares |-> 0,
                borrow_shares |-> 0, last_update_timestamp |-> 0]
    /\ config = InitialConfig
    /\ fees = [referrals |-> <<NewTracker(0)>>, total_shares |-> 0, fees_per_share |-> 0,
               maintainer_fees |-> 0, protocol_fees |-> 0]
    /\ positions = [u \in 1..Suppliers |-> [shares |-> 0, referral |-> NoReferral]]
    /\ limiter = new_limiter(InitialConfig.pool.rate_limit, 0)
    /\ allowed = TRUE
    /\ loans = [m \in 1..Managers |-> 0]
    /\ wealth \in [1..Managers -> Wealths]

Lend ==
    \E u \in 1..Suppliers :
        \/ \E amount \in SupplyAmounts, r \in DOMAIN fees.referrals : Supply(u, amount, r)
        \/ \E amount \in WithdrawAmounts \cup {supply_shares_to_amount(positions[u].shares)} :
              Withdraw(u, amount)

Collect ==
    \/ MintSupplyReferral
    \/ \E r \in DOMAIN fees.referrals : WithdrawReferralFees(r)
    \/ \E whose \in {"maintainer_fees", "protocol_fees"} : WithdrawFees(whose)

Trade ==
    \E m \in 1..Managers :
        \/ \E amount \in LoanAmounts : Borrow(m, amount) \/ Repay(m, amount)
        \/ \E coin \in Coins : Liquidate(m, coin)
        \/ \E w \in Wealths : Revalue(m, w)

Maintain ==
    \/ \E c \in InterestConfigs : UpdateInterestParams(c)
    \/ \E c \in PoolConfigs : UpdateMarginPoolConfig(c)
    \/ AllowDeepbookPool

Next == Lend \/ Collect \/ Trade \/ Maintain \/ Tick

Spec == Init /\ [][Next]_vars

-----------------------------------------------------------------------------
(* Every field has its type; no u64 goes below zero, and the limiter never  *)
(* holds more than its capacity.                                            *)
TypeOK ==
    /\ now \in Nat /\ vault \in Nat /\ ops \in Nat /\ allowed \in BOOLEAN
    /\ state \in [total_supply : Nat, total_borrow : Nat, supply_shares : Nat,
                  borrow_shares : Nat, last_update_timestamp : 0..now]
    /\ fees.total_shares \in Nat /\ fees.fees_per_share \in Nat
    /\ fees.maintainer_fees \in Nat /\ fees.protocol_fees \in Nat
    /\ fees.referrals \in
          Seq([current_shares : Nat, last_fees_per_share : 0..fees.fees_per_share,
               unclaimed_fees : Nat])
    /\ positions \in [1..Suppliers -> [shares : Nat, referral : 0..Len(fees.referrals)]]
    /\ loans \in [1..Managers -> Nat] /\ wealth \in [1..Managers -> Nat]
    /\ limiter.available \in 0..limiter.capacity /\ limiter.last_updated_ms \in 0..now

(* Shares are kept in five places, which three modules change: what the     *)
(* caps hold is what the state and the fees count, each referral has the    *)
(* shares of the caps that named it last, and the managers hold the         *)
(* borrowed shares (increase_user_supply, decrease_shares, repay_shares).   *)
SharesAgree ==
    /\ TypeOK
    /\ state.supply_shares = Total([u \in 1..Suppliers |-> positions[u].shares], Suppliers)
    /\ fees.total_shares = state.supply_shares
    /\ \A r \in DOMAIN fees.referrals :
          fees.referrals[r].current_shares =
             Total([u \in 1..Suppliers |->
                      IF positions[u].referral = r THEN positions[u].shares ELSE 0], Suppliers)
    /\ state.borrow_shares = Total(loans, Managers)

FeesOwed ==
    fees.maintainer_fees + fees.protocol_fees
      + Total([r \in DOMAIN fees.referrals |-> Unclaimed(fees, r)], Len(fees.referrals))

(* The coins and the loans of the pool cover the supply and all the fees    *)
(* not claimed yet: no rounding of shares, ratios, interest or fees, in     *)
(* whatever order handlers run, gives away more than comes in (margin_state *)
(* and protocol_fees).                                                      *)
Solvent == vault + state.total_borrow >= state.total_supply + FeesOwed

Worth(u) == supply_shares_to_amount(positions[u].shares)

(* A loan that its manager's assets do not cover is written off. *)
WritesOff(m) == loans[m] > 0 /\ loans'[m] = 0 /\ wealth[m] < Debt(m)

(* A spread above Scale takes more than the interest, as time passes.       *)
SpreadEatsSupply == now' > now /\ config.pool.protocol_spread > Scale

(* Whose shares lose worth without a call of their own.                     *)
Losers == {u \in 1..Suppliers : positions'[u] = positions[u] /\ Worth(u)' < Worth(u)}

(* What a supplier's shares are worth never falls by what somebody else     *)
(* does, whichever parameters are in force; it falls only when the loan of  *)
(* a manager whose assets do not cover it is liquidated as a whole, or      *)
(* while time passes under a protocol spread of more than one               *)
(* (increase_supply, decrease_supply_shares, repay_liquidation: "We only    *)
(* default if this is a full liquidation").                                 *)
SuppliersLoseOnlyToDefaults ==
    [][Losers # {} => SpreadEatsSupply \/ \E m \in 1..Managers : WritesOff(m)]_vars

(* What the tests of set_margin_pool_config say, that a spread above one is *)
(* refused, would make it: suppliers lose to a default and nothing else.    *)
NoLossWithoutDefault == [][Losers # {} => \E m \in 1..Managers : WritesOff(m)]_vars

(* A change of the parameters changes neither what a manager owes nor what  *)
(* a supplier has at that moment: the time that has passed is charged at    *)
(* the old rates (update_interest_params, update_margin_pool_config).       *)
KeepsTheBooks ==
    config' # config =>
        /\ \A m \in 1..Managers : Debt(m)' = Debt(m)
        /\ \A u \in 1..Suppliers : Worth(u)' = Worth(u)

ParametersActFromNowOn == [][KeepsTheBooks]_vars

(* The sum of e[k] for k in i..j. *)
Since(e, i, j) == Total([k \in 1..j |-> IF k < i THEN 0 ELSE e[k]], j)

Outs == [k \in DOMAIN flows |-> flows[k].out]
Ins == [k \in DOMAIN flows |-> flows[k].in]

(* What the limiter may gain between a flow and the one before it. *)
Refills ==
    [k \in DOMAIN flows |->
        IF k = 1 THEN 0 ELSE flows[k].rate * (flows[k].at - flows[k - 1].at)]

(* In any stretch of time what leaves under the limiter is within its       *)
(* capacity at the start, the refill at the rates then in force and what    *)
(* came in, however the limits are changed, turned off and on meanwhile     *)
(* (rate_limiter.move).                                                     *)
WithinTheBucket ==
    \A i, j \in DOMAIN flows : i <= j =>
        Since(Outs, i, j)
          <= flows[i].capacity + Since(Refills, i + 1, j) + Since(Ins, i, j)
=============================================================================
