-------------------------------- MODULE Pool --------------------------------
(***************************************************************************)
(* Trading in one pool: pool.move with the handlers of state/state.move     *)
(* that orders go through, the trading fields of state/account.move, the    *)
(* fee history of state/history.move and the transfers of vault/vault.move, *)
(* on the book of module Book.                                              *)
(*                                                                          *)
(* A balance manager places, modifies and cancels orders.  A resting order  *)
(* locks its funds and its maker fee in the vault; what a maker earns or    *)
(* gets back stays in the vault, in the settled balances of its account,    *)
(* until the account next settles.  The maker fee of an order is the one of *)
(* the epoch it was placed in, for as long as it rests.                     *)
(*                                                                          *)
(* A handler is one Move transaction: it is atomic, and an abort undoes it. *)
(* An abort is a guard that is false.                                       *)
(***************************************************************************)
EXTENDS Book, Totals

CONSTANTS
    N,                   \* number of balance managers
    InitialFunds,        \* what each balance manager holds at first
    PoolKinds,           \* kinds of pools: "whitelisted", "other"
    TradeParams,         \* [taker_fee, maker_fee] governance may choose
    OrderDeepPrices,     \* DEEP prices an order paid in DEEP may get
    AdditionalTakerFee,  \* additional_taker_fee of the EWMA state
    EwmaKinds,           \* kinds of pools whose EWMA state may be enabled
    ReferralMultiplier,  \* multiplier of the referral of each balance manager,
                         \* 0 when it has none
    MinPrice, MaxPrice,  \* constants::min_price, constants::max_price
    TickSize, LotSize, MinSize,
    MaxOpenOrders,       \* constants::max_open_orders
    Prices, Quantities, Expiries, Types, Options, PayWithDeep,  \* inputs explored
    MaxOrders,           \* bound on the orders placed
    MaxTime, MaxEpoch    \* bounds on the clock and on the epochs explored

Users == 1..N

Params == [taker_fee : Nat, maker_fee : Nat]

ASSUME PoolAssumption ==
    /\ N \in Nat
    /\ InitialFunds \in [Users -> BalanceSheets]
    /\ PoolKinds \subseteq {"whitelisted", "other"} /\ EwmaKinds \subseteq PoolKinds
    /\ TradeParams \subseteq Params
    /\ OrderDeepPrices \subseteq OrderDeepPrice
    /\ AdditionalTakerFee \in Nat
    /\ ReferralMultiplier \in [Users -> Nat]
    /\ MinPrice \in Nat \ {0} /\ MaxPrice \in Nat
    /\ TickSize \in Nat \ {0} /\ LotSize \in Nat \ {0} /\ MinSize \in Nat \ {0}
    /\ MaxOpenOrders \in Nat
    /\ Prices \subseteq Nat /\ Quantities \subseteq Nat /\ Expiries \subseteq Nat
    /\ Types \subseteq OrderTypes /\ Options \subseteq SelfMatchingOptions
    /\ PayWithDeep \subseteq BOOLEAN
    /\ MaxOrders \in Nat /\ MaxTime \in Nat /\ MaxEpoch \in Nat

VARIABLES
    now,        \* clock.timestamp_ms()
    epoch,      \* ctx.epoch()
    kind,       \* whether the pool is whitelisted
    ewma,       \* whether the EWMA state is enabled
    gov,        \* epoch, trade_params and next_trade_params of Governance
    history,    \* epoch of History and the maker fee of each historic epoch
    book,       \* the resting orders by arrival
    nextBid,    \* next_bid_order_id
    nextAsk,    \* next_ask_order_id
    accounts,   \* open orders and settled balances of each Account
    fees,       \* total_fees_collected, of all epochs together
    wallet,     \* balances of each balance manager
    vault,      \* balances of the vault
    rewards,    \* balances of the ReferralRewards
    splits      \* how often an order was cut in two (not in the code)

vars == <<now, epoch, kind, ewma, gov, history, book, nextBid, nextAsk,
          accounts, fees, wallet, vault, rewards, splits>>

-----------------------------------------------------------------------------
(***************************************************************************)
(* Fees of the epochs.  What stakers vote is abstracted: governance may set *)
(* any next_trade_params; module Governance models how.                     *)
(***************************************************************************)
(* Mutant of update_governance: the epoch moves on, the parameters do not.   *)
update_governanceLate(g, e) == [g EXCEPT !.epoch = e]

update_governance(g, e) ==
    IF g.epoch = e THEN g ELSE [g EXCEPT !.epoch = e, !.trade_params = g.next_trade_params]

(* Mutant of update_history: the fees of earlier epochs are dropped.         *)
update_historyForgets(h, g, e) ==
    IF h.epoch = e THEN h ELSE [epoch |-> e, maker_fee |-> [d \in {e} |-> g.trade_params.maker_fee]]

update_history(h, g, e) ==
    IF h.epoch = e
    THEN h
    ELSE [epoch |-> e, maker_fee |-> With(h.maker_fee, e, g.trade_params.maker_fee)]

(* The objects after the calls every trading handler starts with.            *)
G == update_governance(gov, epoch)

H == update_history(history, G, epoch)

historic_maker_fee(h, e) == h.maker_fee[e]

(* taker_fee_for_user, then apply_taker_penalty.  The stake and the volume   *)
(* of the account, and the gas price, decide; each outcome is possible.      *)
TakerFees ==
    {fee + penalty : fee \in {G.trade_params.taker_fee, G.trade_params.taker_fee \div 2},
                     penalty \in IF ewma THEN {0, AdditionalTakerFee} ELSE {0}}

-----------------------------------------------------------------------------
(***************************************************************************)
(* Vault.settle_balance_manager: the difference between what the account    *)
(* gets and what it owes is transferred, asset by asset.                    *)
(***************************************************************************)
TransferCompletes(u, out, in) ==
    \A x \in Assets : /\ out[x] <= vault[x] + in[x]
                      /\ in[x] <= wallet[u][x] + out[x]

(* The transfer, then process_referral_fees: the referral fee comes on top,  *)
(* out of the balance manager.                                               *)
SettleWithReferral(u, out, in, referral_fee) ==
    /\ TransferCompletes(u, out, in)
    /\ \A x \in Assets : referral_fee[x] <= wallet[u][x] + out[x] - in[x]
    /\ vault' = [x \in Assets |-> vault[x] + in[x] - out[x]]
    /\ wallet' = [wallet EXCEPT ![u] =
                     [x \in Assets |-> wallet[u][x] + out[x] - in[x] - referral_fee[x]]]
    /\ rewards' = add_balances(rewards, referral_fee)

settle_balance_manager(u, out, in) == SettleWithReferral(u, out, in, Nothing)

-----------------------------------------------------------------------------
(***************************************************************************)
(* Placing orders.                                                          *)
(***************************************************************************)
Arrivals == (MaxOrders + 1 - nextBid) + (nextAsk - 1)

(* Mutant of process_fill: the fee of an expired order is collected as well. *)
process_fillCollectsAlways(h, s, fill) ==
    LET u    == fill.maker.owner
        fee  == FeeOf(fill.maker, fill.base, fill.quote,
                      historic_maker_fee(h, fill.maker.epoch))
        out  == get_settled_maker_quantities(fill)
        paid == IF fill.expired THEN add_balances(out, fee) ELSE out
        gone == IF fill.expired \/ fill.completed THEN {fill.arrival} ELSE {}
    IN  [accounts |-> [s.accounts EXCEPT
                         ![u].settled = add_balances(s.accounts[u].settled, paid),
                         ![u].open_orders = s.accounts[u].open_orders \ gone],
         fees |-> add_balances(s.fees, fee)]

(* One round of process_fills; s holds the accounts and the fees collected.  *)
process_fill(h, s, fill) ==
    LET u    == fill.maker.owner
        fee  == FeeOf(fill.maker, fill.base, fill.quote,
                      historic_maker_fee(h, fill.maker.epoch))
        out  == get_settled_maker_quantities(fill)
        paid == IF fill.expired THEN add_balances(out, fee) ELSE out
        gone == IF fill.expired \/ fill.completed THEN {fill.arrival} ELSE {}
    IN  [accounts |-> [s.accounts EXCEPT
                         ![u].settled = add_balances(s.accounts[u].settled, paid),
                         ![u].open_orders = s.accounts[u].open_orders \ gone],
         fees |-> IF fill.expired THEN s.fees ELSE add_balances(s.fees, fee)]

process_fills(h, s, fills) ==
    LET Loop[i \in 0..Len(fills)] ==
            IF i = 0 THEN s ELSE process_fill(h, Loop[i - 1], fills[i])
    IN  Loop[Len(fills)]

validate_inputs(t) ==
    /\ t.quantity >= MinSize
    /\ t.quantity % LotSize = 0
    /\ now <= t.expire
    /\ t.market => t.order_type # "post_only"
    /\ ~ t.market => /\ MinPrice <= t.price /\ t.price <= MaxPrice
                     /\ t.price % TickSize = 0

(* get_order_id: the counter of the side moves, whether the order rests or   *)
(* not.                                                                      *)
get_order_id(is_bid) == IF is_bid THEN nextBid - 1 ELSE nextAsk + 1

ToOrder(t, m) ==
    [owner |-> t.owner, is_bid |-> t.is_bid, price |-> t.price,
     seq |-> get_order_id(t.is_bid), quantity |-> t.quantity, filled |-> m.executed,
     deep_price |-> t.deep_price, epoch |-> epoch, expire |-> t.expire]

(* paid_fees_balances: the asset is read off pay_with_deep.                  *)
paid_fees_balances(t, fee) ==
    IF t.pay_with_deep
    THEN new(0, 0, non_zero_value(fee))
    ELSE IF t.is_bid
         THEN new(0, non_zero_value(fee), 0)
         ELSE new(non_zero_value(fee), 0, 0)

(* calculate_partial_fill_balances: what the taker gets and what it owes.    *)
TakerGets(t, m) == IF t.is_bid THEN new(m.executed, 0, 0) ELSE new(0, m.quote, 0)

TakerOwes(t, m, fee) ==
    LET traded == IF t.is_bid THEN new(0, m.quote, 0) ELSE new(m.executed, 0, 0)
        locked == IF Rests(t, m)
                  THEN locked_balance(ToOrder(t, m), G.trade_params.maker_fee)
                  ELSE Nothing
    IN  add_balances(add_balances(traded, fee), locked)

(* process_referral_fees: a multiple of the paid fee, in the same asset.     *)
referral_fees(t, fee) ==
    mul_balances(paid_fees_balances(t, fee), ReferralMultiplier[t.owner])

(* place_order_int: create_order, process_create, settle_balance_manager and *)
(* process_referral_fees.                                                    *)
PlaceOrder(t) ==
    LET u == t.owner
        m == match_against_book(book, t, now)
        s == process_fills(H, [accounts |-> accounts, fees |-> fees], m.fills)
        k == Arrivals + 1
    IN  /\ Arrivals < MaxOrders
        /\ validate_inputs(t)
        /\ ExecutionAllowed(t, m)
        /\ Rests(t, m) => Cardinality(s.accounts[u].open_orders) < MaxOpenOrders
        /\ \E taker_fee \in TakerFees :
              LET fee == FeeOf(t, m.executed, m.quote, taker_fee)
              IN  /\ fees' = add_balances(s.fees, paid_fees_balances(t, fee))
                  /\ SettleWithReferral(u,
                        add_balances(TakerGets(t, m), s.accounts[u].settled),
                        TakerOwes(t, m, fee),
                        referral_fees(t, fee))
        /\ book' = IF Rests(t, m) THEN With(m.book, k, ToOrder(t, m)) ELSE m.book
        /\ accounts' = [s.accounts EXCEPT
                          ![u].settled = Nothing,
                          ![u].open_orders = IF Rests(t, m) THEN @ \cup {k} ELSE @]
        /\ nextBid' = IF t.is_bid THEN get_order_id(TRUE) ELSE nextBid
        /\ nextAsk' = IF t.is_bid THEN nextAsk ELSE get_order_id(FALSE)
        /\ gov' = G
        /\ history' = H
        /\ splits' = splits + Cardinality({i \in DOMAIN m.fills :
                                ~ m.fills[i].expired /\ ~ m.fills[i].completed})
        /\ UNCHANGED <<now, epoch, kind, ewma>>

(* get_order_deep_price and empty_deep_price.                                *)
DeepPricesFor(pay_with_deep) ==
    IF pay_with_deep /\ kind # "whitelisted" THEN OrderDeepPrices ELSE {EmptyDeepPrice}

PlaceLimitOrder(u, is_bid, price, quantity, type, option, pay, expire) ==
    \E deep_price \in DeepPricesFor(pay) :
        PlaceOrder([owner |-> u, is_bid |-> is_bid, price |-> price,
                    quantity |-> quantity, order_type |-> type,
                    self_matching |-> option, pay_with_deep |-> pay,
                    deep_price |-> deep_price, expire |-> expire, market |-> FALSE])

PlaceMarketOrder(u, is_bid, quantity, option, pay) ==
    \E deep_price \in DeepPricesFor(pay) :
        PlaceOrder([owner |-> u, is_bid |-> is_bid,
                    price |-> IF is_bid THEN MaxPrice ELSE MinPrice,
                    quantity |-> quantity, order_type |-> "immediate_or_cancel",
                    self_matching |-> option, pay_with_deep |-> pay,
                    deep_price |-> deep_price, expire |-> now, market |-> TRUE])

-----------------------------------------------------------------------------
(***************************************************************************)
(* Modifying and canceling orders, and taking out what is settled.          *)
(***************************************************************************)

(* What the account gets back for quantity[k] of each order k of orders.     *)
Refunds(orders, quantity) ==
    [x \in Assets |->
        Total([k \in 1..MaxOrders |->
                 IF k \in orders
                 THEN calculate_cancel_refund(book[k], quantity[k],
                                       historic_maker_fee(H, book[k].epoch))[x]
                 ELSE 0], MaxOrders)]

ModifyOrder(u, k, new_quantity) ==
    /\ k \in DOMAIN book
    /\ book[k].owner = u
    /\ new_quantity >= MinSize
    /\ new_quantity % LotSize = 0
    /\ book[k].filled < new_quantity /\ new_quantity < book[k].quantity
    /\ now <= book[k].expire
    /\ book[k].epoch \in DOMAIN H.maker_fee
    /\ settle_balance_manager(u,
          add_balances(Refunds({k}, [j \in {k} |-> book[j].quantity - new_quantity]),
                       accounts[u].settled),
          Nothing)
    /\ book' = [book EXCEPT ![k].quantity = new_quantity]
    /\ accounts' = [accounts EXCEPT ![u].settled = Nothing]
    /\ splits' = splits + 1
    /\ gov' = G
    /\ history' = H
    /\ UNCHANGED <<now, epoch, kind, ewma, nextBid, nextAsk, fees>>

(* cancel_order on each of orders in turn, as cancel_order, cancel_orders    *)
(* and cancel_all_orders do; each call settles, the sum is transferred.      *)
CancelRefund(u, orders) ==
    add_balances(Refunds(orders, [k \in orders |-> remaining(book[k])]),
                 accounts[u].settled)

CancelCompletes(u, orders) ==
    /\ orders \subseteq accounts[u].open_orders
    /\ \A k \in orders : book[k].epoch \in DOMAIN H.maker_fee
    /\ TransferCompletes(u, CancelRefund(u, orders), Nothing)

CancelOrders(u, orders) ==
    /\ orders # {}
    /\ orders \subseteq {k \in DOMAIN book : book[k].owner = u}
    /\ CancelCompletes(u, orders)
    /\ settle_balance_manager(u, CancelRefund(u, orders), Nothing)
    /\ book' = [k \in DOMAIN book \ orders |-> book[k]]
    /\ accounts' = [accounts EXCEPT ![u].settled = Nothing,
                                    ![u].open_orders = @ \ orders]
    /\ gov' = G
    /\ history' = H
    /\ UNCHANGED <<now, epoch, kind, ewma, nextBid, nextAsk, fees, splits>>

CancelAllOrders(u) == CancelOrders(u, accounts[u].open_orders)

WithdrawSettledAmounts(u) ==
    /\ settle_balance_manager(u, accounts[u].settled, Nothing)
    /\ accounts' = [accounts EXCEPT ![u].settled = Nothing]
    /\ UNCHANGED <<now, epoch, kind, ewma, gov, history, book, nextBid, nextAsk,
                   fees, splits>>

(* Anyone may call it; it aborts when there is nothing to settle.            *)
WithdrawSettledAmountsPermissionless(u) ==
    /\ accounts[u].settled # Nothing
    /\ WithdrawSettledAmounts(u)

(* The owner of a referral takes its rewards out of the pool.                *)
ClaimPoolReferralRewards ==
    /\ rewards' = Nothing
    /\ UNCHANGED <<now, epoch, kind, ewma, gov, history, book, nextBid, nextAsk,
                   accounts, fees, wallet, vault, splits>>

-----------------------------------------------------------------------------
(***************************************************************************)
(* The environment: votes, the admin, the clock and the epochs.             *)
(***************************************************************************)
Vote(params) ==
    /\ kind # "whitelisted"
    /\ gov' = [G EXCEPT !.next_trade_params = params]
    /\ history' = H
    /\ UNCHANGED <<now, epoch, kind, ewma, book, nextBid, nextAsk,
                   accounts, fees, wallet, vault, rewards, splits>>

EnableEwmaState(enable) ==
    /\ kind \in EwmaKinds
    /\ ewma' = enable
    /\ UNCHANGED <<now, epoch, kind, gov, history, book, nextBid, nextAsk,
                   accounts, fees, wallet, vault, rewards, splits>>

Tick ==
    /\ now < MaxTime
    /\ now' = now + 1
    /\ UNCHANGED <<epoch, kind, ewma, gov, history, book, nextBid, nextAsk,
                   accounts, fees, wallet, vault, rewards, splits>>

NextEpoch ==
    /\ epoch < MaxEpoch
    /\ epoch' = epoch + 1
    /\ UNCHANGED <<now, kind, ewma, gov, history, book, nextBid, nextAsk,
                   accounts, fees, wallet, vault, rewards, splits>>

-----------------------------------------------------------------------------
(* A whitelisted pool charges no fee, another one the rates governance set.  *)
InitialParams(k) ==
    IF k = "whitelisted" THEN {[taker_fee |-> 0, maker_fee |-> 0]} ELSE TradeParams

Init ==
    /\ now = 1 /\ epoch = 0
    /\ kind \in PoolKinds
    /\ ewma = FALSE
    /\ \E p \in InitialParams(kind) :
          /\ gov = [epoch |-> 0, trade_params |-> p, next_trade_params |-> p]
          /\ history = [epoch |-> 0, maker_fee |-> [e \in {0} |-> p.maker_fee]]
    /\ book = <<>>
    /\ nextBid = MaxOrders + 1 /\ nextAsk = 1
    /\ accounts = [u \in Users |-> [open_orders |-> {}, settled |-> Nothing]]
    /\ fees = Nothing
    /\ wallet = InitialFunds
    /\ vault = Nothing
    /\ rewards = Nothing
    /\ splits = 0

Next ==
    \/ \E u \in Users, is_bid \in BOOLEAN, price \in Prices, quantity \in Quantities,
          type \in Types, option \in Options, pay \in PayWithDeep, expire \in Expiries :
          PlaceLimitOrder(u, is_bid, price, quantity, type, option, pay, expire)
    \/ \E u \in Users, is_bid \in BOOLEAN, quantity \in Quantities, option \in Options,
          pay \in PayWithDeep : PlaceMarketOrder(u, is_bid, quantity, option, pay)
    \/ \E u \in Users, k \in DOMAIN book, quantity \in Quantities : ModifyOrder(u, k, quantity)
    \/ \E u \in Users : \E orders \in SUBSET DOMAIN book : CancelOrders(u, orders)
    \/ \E u \in Users : CancelAllOrders(u)
    \/ \E u \in Users : WithdrawSettledAmounts(u)
    \/ \E u \in Users : WithdrawSettledAmountsPermissionless(u)
    \/ ClaimPoolReferralRewards
    \/ \E params \in TradeParams : Vote(params)
    \/ \E enable \in BOOLEAN : EnableEwmaState(enable)
    \/ Tick
    \/ NextEpoch

Spec == Init /\ [][Next]_vars

-----------------------------------------------------------------------------
(***************************************************************************)
(* Properties                                                               *)
(***************************************************************************)
Order == [owner : Users, is_bid : BOOLEAN, price : Nat, seq : Nat, quantity : Nat,
          filled : Nat, deep_price : OrderDeepPrice, epoch : Nat, expire : Nat]

(* Every field has its type, amounts are never negative and a resting order  *)
(* has something left to fill.                                               *)
TypeOK ==
    /\ now \in Nat /\ epoch \in Nat /\ splits \in Nat
    /\ kind \in PoolKinds /\ ewma \in BOOLEAN
    /\ gov \in [epoch : Nat, trade_params : Params, next_trade_params : Params]
    /\ history.epoch \in Nat
    /\ \A e \in DOMAIN history.maker_fee : e \in Nat /\ history.maker_fee[e] \in Nat
    /\ DOMAIN book \subseteq 1..MaxOrders
    /\ \A k \in DOMAIN book : book[k] \in Order /\ book[k].filled < book[k].quantity
    /\ nextBid \in Nat /\ nextAsk \in Nat
    /\ accounts \in [Users -> [open_orders : SUBSET (1..MaxOrders), settled : BalanceSheets]]
    /\ fees \in BalanceSheets /\ vault \in BalanceSheets
    /\ rewards \in BalanceSheets
    /\ wallet \in [Users -> BalanceSheets]

(* The book is never crossed: after matching, every bid is below every ask,  *)
(* although a scan ends after MAX_FILLS orders (create_order).               *)
NotCrossed ==
    \A b \in Side(book, TRUE), a \in Side(book, FALSE) : book[b].price < book[a].price

(* open_orders of an account are its orders in the book, never more than     *)
(* MAX_OPEN_ORDERS: matching, expiry, self-matching and cancels remove an    *)
(* order from both (process_create, process_maker_fill, process_cancel).     *)
OpenOrdersMatchBook ==
    \A u \in Users :
        /\ accounts[u].open_orders = {k \in DOMAIN book : book[k].owner = u}
        /\ Cardinality(accounts[u].open_orders) <= MaxOpenOrders

(* The book is sound after every handler: uncrossed although a scan ends     *)
(* after MAX_FILLS orders, without an order that has nothing left to fill,   *)
(* and each account's open_orders are its orders in it, however orders       *)
(* expire, match each other or their own owner, are modified or cancelled    *)
(* (match_against_book, process_create, process_maker_fill, process_cancel). *)
BookIsSound == TypeOK /\ NotCrossed /\ OpenOrdersMatchBook

(* What the vault owes of asset x: settled balances, and what the resting    *)
(* orders lock at the maker fee of the epoch they were placed in.            *)
Settled(x) == Total([u \in Users |-> accounts[u].settled[x]], N)

Locked(x) ==
    Total([k \in 1..MaxOrders |->
             IF k \in DOMAIN book
             THEN locked_balance(book[k], historic_maker_fee(history, book[k].epoch))[x]
             ELSE 0], MaxOrders)

Owed(x) == Settled(x) + Locked(x) + fees[x]

(* The vault covers all it owes, the fees it recorded included, whatever     *)
(* rounding, partial fills, modifications and fee changes did.               *)
Solvent == \A x \in Assets : Owed(x) <= vault[x]

(* Rounding keeps at most DustPerSplit units of an asset for each time an    *)
(* order was cut in two: nothing else is left behind in the vault.           *)
DustPerSplit == 3

NothingTrapped == \A x \in Assets : vault[x] <= Owed(x) + DustPerSplit * splits

(* Every owner can cancel any of its orders, in any epoch, expired or not:   *)
(* the fee of its epoch is still known and the vault can pay the refund.     *)
CancelNeverAborts ==
    \A k \in DOMAIN book : CancelCompletes(book[k].owner, {k})

(* Price, then time: when a new order fills or removes a resting order, it   *)
(* removes every order of that side with a better price, or with the same    *)
(* price and an earlier arrival (match_against_book, encode_order_id).       *)
HasPriority(j, k) ==
    /\ book[j].is_bid = book[k].is_bid
    /\ \/ IF book[j].is_bid THEN book[j].price > book[k].price
                            ELSE book[j].price < book[k].price
       \/ book[j].price = book[k].price /\ j < k

Hit(k) == k \notin DOMAIN book' \/ book'[k].filled > book[k].filled

PriceTimePriority ==
    [][nextBid' # nextBid \/ nextAsk' # nextAsk =>
          \A j, k \in DOMAIN book : HasPriority(j, k) /\ Hit(k) => j \notin DOMAIN book']_vars

(* A fee is recorded in the asset it was paid in: the vault holds the fees   *)
(* that History counts (fee_is_deep, "Whether the fee is in DEEP terms").    *)
RecordedFeesHeld == \A x \in Assets : fees[x] <= vault[x]

(* The pool keeps the promise of EpochParams, which Governance implements.   *)
EP == INSTANCE EpochParams WITH ParamSet <- Params, params <- gov

ImplementsEpochParams == EP!Spec
=============================================================================
