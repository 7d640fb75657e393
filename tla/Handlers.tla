----------------------------- MODULE Handlers -----------------------------
(***************************************************************************)
(* The 47 indexing pipelines (crates/indexer/src/handlers): which events    *)
(* each one picks out of a checkpoint, the table it writes, and the row it  *)
(* makes of an event.                                                       *)
(*                                                                         *)
(* An event is [package, type, ok, pool, time, data]: ok says that its      *)
(* bytes decode into the indexer's struct, pool and time are the pool and   *)
(* the instant it is about, and data its other fields, a record for the     *)
(* events whose handler computes and opaque for those copied field by       *)
(* field.  A transaction is [digest, commands, inputs, events], a           *)
(* checkpoint [ts, transactions].                                           *)
(***************************************************************************)
EXTENDS EventTypes, OrderRows, Naturals, Integers, Sequences

CONSTANTS
    NotACall,      \* a command of a transaction that is no Move call
    NULL           \* an absent column

Handler(name, structs, table, time) ==
    [name |-> name, events |-> structs, table |-> table, time |-> time]

-----------------------------------------------------------------------------
(* The pipelines of the core package. *)

BalanceManagerEventHandler ==
    Handler("balance_manager_event", {<<"balance_manager", "BalanceManagerEvent">>}, "balance_manager_created", "none")

BalancesHandler ==
    Handler("balances", {<<"balance_manager", "BalanceEvent">>}, "balances", "none")

DeepBookReferralCreatedEventHandler ==
    Handler("deepbook_referral_created_event", {<<"balance_manager", "DeepBookReferralCreatedEvent">>}, "deepbook_referral_created", "none")

DeepBookReferralSetEventHandler ==
    Handler("deepbook_referral_set_event", {<<"balance_manager", "DeepBookReferralSetEvent">>}, "deepbook_referral_set", "none")

FlashLoanHandler ==
    Handler("flash_loan", {<<"vault", "FlashLoanBorrowed">>}, "flashloans", "none")

OrderFillHandler ==
    Handler("order_fill", {<<"order_info", "OrderFilled">>}, "order_fills", "event")

PoolPriceHandler ==
    Handler("pool_price", {<<"deep_price", "PriceAdded">>}, "pool_prices", "none")

ProposalsHandler ==
    Handler("proposals", {<<"state", "ProposalEvent">>}, "proposals", "none")

RebatesHandler ==
    Handler("rebates", {<<"state", "RebateEvent">>}, "rebates", "none")

ReferralFeeEventHandler ==
    Handler("referral_fee_events", {<<"pool", "ReferralFeeEvent">>}, "referral_fee_events", "none")

StakesHandler ==
    Handler("stakes", {<<"state", "StakeEvent">>}, "stakes", "none")

VotesHandler ==
    Handler("votes", {<<"state", "VoteEvent">>}, "votes", "none")

BookParamsUpdatedHandler ==
    Handler("book_params_updated", {<<"pool", "BookParamsUpdated">>}, "book_params_updated", "event")

ReferralClaimedHandler ==
    Handler("referral_claimed", {<<"pool", "ReferralClaimed">>}, "referral_claimed", "none")

EwmaUpdateHandler ==
    Handler("ewma_updates", {<<"ewma", "EWMAUpdate">>}, "ewma_updates", "event")

TakerFeePenaltyHandler ==
    Handler("taker_fee_penalty_applied", {<<"state", "TakerFeePenaltyApplied">>}, "taker_fee_penalty_applied", "none")

DeepBurnedHandler ==
    Handler("deep_burned", {<<"pool", "DeepBurned">>}, "deep_burned", "none")

PoolCreatedHandler ==
    Handler("pool_created", {<<"pool", "PoolCreated">>}, "pool_created", "none")

TradeParamsUpdateHandler ==
    Handler("trade_params_update", {<<"governance", "TradeParamsUpdateEvent">>},
            "trade_params_update", "none")

(* One pipeline for the life of an order. *)
OrderUpdateHandler ==
    Handler("order_update",
            {<<"order_info", "OrderPlaced">>, <<"order", "OrderModified">>,
             <<"order", "OrderCanceled">>, <<"order_info", "OrderExpired">>},
            "order_updates", "event")

-----------------------------------------------------------------------------
(* The pipelines of the margin package. *)

MarginManagerCreatedHandler ==
    Handler("margin_manager_created", {<<"margin_manager", "MarginManagerCreatedEvent">>}, "margin_manager_created", "event")

LoanBorrowedHandler ==
    Handler("loan_borrowed", {<<"margin_manager", "LoanBorrowedEvent">>}, "loan_borrowed", "event")

LoanRepaidHandler ==
    Handler("loan_repaid", {<<"margin_manager", "LoanRepaidEvent">>}, "loan_repaid", "event")

LiquidationHandler ==
    Handler("liquidation", {<<"margin_manager", "LiquidationEvent">>}, "liquidation", "event")

AssetSuppliedHandler ==
    Handler("asset_supplied", {<<"margin_pool", "AssetSupplied">>}, "asset_supplied", "event")

AssetWithdrawnHandler ==
    Handler("asset_withdrawn", {<<"margin_pool", "AssetWithdrawn">>}, "asset_withdrawn", "event")

MarginPoolCreatedHandler ==
    Handler("margin_pool_created", {<<"margin_pool", "MarginPoolCreated">>}, "margin_pool_created", "event")

DeepbookPoolUpdatedHandler ==
    Handler("deepbook_pool_updated", {<<"margin_pool", "DeepbookPoolUpdated">>}, "deepbook_pool_updated", "event")

InterestParamsUpdatedHandler ==
    Handler("interest_params_updated", {<<"margin_pool", "InterestParamsUpdated">>}, "interest_params_updated", "event")

MarginPoolConfigUpdatedHandler ==
    Handler("margin_pool_config_updated", {<<"margin_pool", "MarginPoolConfigUpdated">>}, "margin_pool_config_updated", "event")

MaintainerCapUpdatedHandler ==
    Handler("maintainer_cap_updated", {<<"margin_registry", "MaintainerCapUpdated">>}, "maintainer_cap_updated", "event")

DeepbookPoolRegisteredHandler ==
    Handler("deepbook_pool_registered", {<<"margin_registry", "DeepbookPoolRegistered">>}, "deepbook_pool_registered", "event")

DeepbookPoolUpdatedRegistryHandler ==
    Handler("deepbook_pool_updated_registry", {<<"margin_registry", "DeepbookPoolUpdated">>}, "deepbook_pool_updated_registry", "event")

DeepbookPoolConfigUpdatedHandler ==
    Handler("deepbook_pool_config_updated", {<<"margin_registry", "DeepbookPoolConfigUpdated">>}, "deepbook_pool_config_updated", "event")

MaintainerFeesWithdrawnHandler ==
    Handler("maintainer_fees_withdrawn", {<<"margin_pool", "MaintainerFeesWithdrawn">>}, "maintainer_fees_withdrawn", "event")

ProtocolFeesWithdrawnHandler ==
    Handler("protocol_fees_withdrawn", {<<"margin_pool", "ProtocolFeesWithdrawn">>}, "protocol_fees_withdrawn", "event")

SupplierCapMintedHandler ==
    Handler("supplier_cap_minted", {<<"margin_pool", "SupplierCapMinted">>}, "supplier_cap_minted", "event")

SupplyReferralMintedHandler ==
    Handler("supply_referral_minted", {<<"margin_pool", "SupplyReferralMinted">>}, "supply_referral_minted", "event")

PauseCapUpdatedHandler ==
    Handler("pause_cap_updated", {<<"margin_registry", "PauseCapUpdated">>}, "pause_cap_updated", "event")

ProtocolFeesIncreasedHandler ==
    Handler("protocol_fees_increased", {<<"protocol_fees", "ProtocolFeesIncreasedEvent">>}, "protocol_fees_increased", "checkpoint")

ReferralFeesClaimedHandler ==
    Handler("referral_fees_claimed", {<<"protocol_fees", "ReferralFeesClaimedEvent">>}, "referral_fees_claimed", "checkpoint")

DepositCollateralHandler ==
    Handler("deposit_collateral", {<<"margin_manager", "DepositCollateralEvent">>}, "collateral_events", "event")

WithdrawCollateralHandler ==
    Handler("withdraw_collateral", {<<"margin_manager", "WithdrawCollateralEvent">>}, "collateral_events", "event")

ConditionalOrderAddedHandler ==
    Handler("conditional_order_added", {<<"tpsl", "ConditionalOrderAdded">>}, "conditional_order_events", "event")

ConditionalOrderCancelledHandler ==
    Handler("conditional_order_cancelled", {<<"tpsl", "ConditionalOrderCancelled">>}, "conditional_order_events", "event")

ConditionalOrderExecutedHandler ==
    Handler("conditional_order_executed", {<<"tpsl", "ConditionalOrderExecuted">>}, "conditional_order_events", "event")

ConditionalOrderInsufficientFundsHandler ==
    Handler("conditional_order_insufficient_funds", {<<"tpsl", "ConditionalOrderInsufficientFunds">>}, "conditional_order_events", "event")

CoreHandlers ==
    {BalanceManagerEventHandler, BalancesHandler,
     DeepBookReferralCreatedEventHandler, DeepBookReferralSetEventHandler,
     FlashLoanHandler, OrderFillHandler, PoolPriceHandler, ProposalsHandler,
     RebatesHandler, ReferralFeeEventHandler, StakesHandler, VotesHandler,
     BookParamsUpdatedHandler, ReferralClaimedHandler, EwmaUpdateHandler,
     TakerFeePenaltyHandler, DeepBurnedHandler, OrderUpdateHandler,
     TradeParamsUpdateHandler, PoolCreatedHandler}

MarginHandlers ==
    {MarginManagerCreatedHandler, LoanBorrowedHandler, LoanRepaidHandler,
     LiquidationHandler, AssetSuppliedHandler, AssetWithdrawnHandler,
     MarginPoolCreatedHandler, DeepbookPoolUpdatedHandler,
     InterestParamsUpdatedHandler, MarginPoolConfigUpdatedHandler,
     MaintainerCapUpdatedHandler, DeepbookPoolRegisteredHandler,
     DeepbookPoolUpdatedRegistryHandler, DeepbookPoolConfigUpdatedHandler,
     MaintainerFeesWithdrawnHandler, ProtocolFeesWithdrawnHandler,
     SupplierCapMintedHandler, SupplyReferralMintedHandler,
     PauseCapUpdatedHandler, ProtocolFeesIncreasedHandler,
     ReferralFeesClaimedHandler, DepositCollateralHandler,
     WithdrawCollateralHandler, ConditionalOrderAddedHandler,
     ConditionalOrderCancelledHandler, ConditionalOrderExecutedHandler,
     ConditionalOrderInsufficientFundsHandler}

AllHandlers == CoreHandlers \cup MarginHandlers

-----------------------------------------------------------------------------
(* Which transactions are looked at. *)

Elements(s) == {s[i] : i \in DOMAIN s}

(* Mutant of is_deepbook_tx: the events are not looked at.                   *)
is_deepbook_txByCalls(tx, c) ==
    LET ours == package_addresses(c) IN
    \/ \E o \in Elements(tx.inputs) : o.package \in ours
    \/ \E p \in Elements(tx.commands) : p # NotACall /\ p \in ours

is_deepbook_tx(tx, c) ==
    LET ours == package_addresses(c) IN
    \/ \E o \in Elements(tx.inputs) : o.package \in ours
    \/ \E e \in Elements(tx.events) : e.package \in ours
    \/ \E p \in Elements(tx.commands) : p # NotACall /\ p \in ours

try_extract_move_call_package(tx) ==
    IF tx.commands = <<>> \/ tx.commands[1] = NotACall THEN NULL ELSE tx.commands[1]

-----------------------------------------------------------------------------
(* The columns of a row that are not the event's fields as they are. *)

DepositColumns(e) ==
    [event_type |-> "deposit", asset_type |-> e.asset, pyth_price |-> e.price,
     withdraw_base_asset |-> NULL]

WithdrawColumns(e) ==
    [event_type |-> "withdraw", asset_type |-> e.asset, pyth_price |-> e.base_price,
     withdraw_base_asset |-> e.withdraw_base_asset]

(* Absent order fields are stored as 0. *)
UnwrapOr0(option) == IF option = NULL THEN 0 ELSE option

ConditionalColumns(kind, e) ==
    [event_type |-> kind, conditional_order_id |-> AsI64(e.conditional_order_id),
     price |-> UnwrapOr0(e.price), expire_timestamp |-> AsI64(UnwrapOr0(e.expire_timestamp))]

Columns(event) ==
    LET e == event.data
        name == event.type[2]
    IN  CASE name = "OrderPlaced"   -> process_order_placed(e)
          [] name = "OrderModified" -> process_order_modified(e)
          [] name = "OrderCanceled" -> process_order_canceled(e)
          [] name = "OrderExpired"  -> process_order_expired(e)
          [] name = "DepositCollateralEvent"    -> DepositColumns(e)
          [] name = "WithdrawCollateralEvent"   -> WithdrawColumns(e)
          [] name = "ConditionalOrderAdded"     -> ConditionalColumns("added", e)
          [] name = "ConditionalOrderCancelled" -> ConditionalColumns("cancelled", e)
          [] name = "ConditionalOrderExecuted"  -> ConditionalColumns("executed", e)
          [] name = "ConditionalOrderInsufficientFunds" ->
                ConditionalColumns("insufficient_funds", e)
          [] OTHER -> e

(* TradeParamsUpdateEvent names no pool: all events of the transaction get  *)
(* the first Pool among its inputs.                                         *)
first_input_pool(tx, c) ==
    LET pools == {i \in DOMAIN tx.inputs : /\ tx.inputs[i].package \in package_addresses(c)
                                           /\ tx.inputs[i].name = "Pool"}
        first == CHOOSE i \in pools : \A j \in pools : i <= j
    IN  IF pools = {} THEN NULL ELSE tx.inputs[first].id

PoolColumn(h, tx, i, c) ==
    CASE h = TradeParamsUpdateHandler -> first_input_pool(tx, c)
      [] h \in {ConditionalOrderAddedHandler, ConditionalOrderCancelledHandler,
                ConditionalOrderInsufficientFundsHandler} -> NULL
      [] OTHER -> tx.events[i].pool

-----------------------------------------------------------------------------
(* Processing a checkpoint. *)

(* Mutant of event_digest: the index is left out.                            *)
event_digestOfTx(tx, i) == <<tx.digest, 1>>

(* The digest and the index printed one after the other; digests are as    *)
(* long as each other up to one character, and random.                      *)
event_digest(tx, i) == <<tx.digest, i>>

(* The positions of the events of tx that pipeline h handles. *)
Matches(h, tx, c) ==
    {i \in DOMAIN tx.events :
        \E s \in h.events : matches_event_type(s, tx.events[i], c)}

Row(h, seq, cp, tx, i, c) ==
    [event_digest |-> event_digest(tx, i), digest |-> tx.digest,
     checkpoint |-> seq, checkpoint_timestamp_ms |-> cp.ts,
     package |-> try_extract_move_call_package(tx),
     pool_id |-> PoolColumn(h, tx, i, c),
     onchain_timestamp |-> CASE h.time = "event" -> tx.events[i].time
                             [] h.time = "checkpoint" -> cp.ts
                             [] h.time = "none" -> NULL,
     columns |-> Columns(tx.events[i])]

DeepbookTxs(cp, c) == {tx \in Elements(cp.transactions) : is_deepbook_tx(tx, c)}

(* Mutant of Decodes: every pipeline decodes all events of a transaction.    *)
DecodesAll(h, cp, c) ==
    \A tx \in DeepbookTxs(cp, c) : \A i \in DOMAIN tx.events : tx.events[i].ok

(* One event that does not decode fails the whole checkpoint. *)
Decodes(h, cp, c) ==
    \A tx \in DeepbookTxs(cp, c) : \A i \in Matches(h, tx, c) : tx.events[i].ok

process(h, seq, cp, c) ==
    UNION {{Row(h, seq, cp, tx, i, c) : i \in Matches(h, tx, c)} :
              tx \in DeepbookTxs(cp, c)}

(* Mutant of commit: a conflict drops the whole batch.                       *)
commitAllOrNothing(table, rows) ==
    LET new == {r.event_digest : r \in rows} IN
    IF new \cap DOMAIN table # {} THEN table
    ELSE [k \in DOMAIN table \cup new |->
            IF k \in DOMAIN table THEN table[k] ELSE CHOOSE r \in rows : r.event_digest = k]

(* INSERT ... ON CONFLICT DO NOTHING: a row whose key is taken is dropped,  *)
(* as is all but one of several new rows with the same key.  A table maps   *)
(* keys to rows.                                                            *)
commit(table, rows) ==
    LET new == {r.event_digest : r \in rows} \ DOMAIN table IN
    [k \in DOMAIN table \cup new |->
        IF k \in DOMAIN table THEN table[k] ELSE CHOOSE r \in rows : r.event_digest = k]
=============================================================================
