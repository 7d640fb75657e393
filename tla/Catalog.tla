------------------------------ MODULE Catalog ------------------------------
(***************************************************************************)
(* The events that the Move packages of the repository emit, against the    *)
(* pipelines of the indexer: one transaction with one event goes past all   *)
(* 47 of them.                                                              *)
(***************************************************************************)
EXTENDS Handlers, FiniteSets

CONSTANTS Configs     \* the configurations of the process

VARIABLES config, tx, homes

vars == <<config, tx, homes>>

EmittedByBalanceManager ==
    In("balance_manager", {"BalanceManagerEvent", "DeepBookReferralSetEvent",
                           "DeepBookReferralCreatedEvent", "BalanceEvent"})
EmittedByOrder == In("order", {"OrderCanceled", "OrderModified"})
EmittedByOrderInfo ==
    In("order_info", {"OrderFilled", "OrderExpired", "OrderPlaced", "OrderInfo",
                      "OrderFullyFilled"})
EmittedByVault == In("vault", {"FlashLoanBorrowed"})
EmittedByDeepPrice == In("deep_price", {"PriceAdded"})
EmittedByClaimRebates == In("state", {"RebateEventV2"})
EmittedByState ==
    EmittedByClaimRebates
      \cup In("state", {"TakerFeePenaltyApplied", "StakeEvent", "ProposalEvent", "VoteEvent"})
EmittedByEwma == In("ewma", {"EWMAUpdate"})
EmittedByGovernance == In("governance", {"TradeParamsUpdateEvent"})
EmittedByHistory == In("history", {"EpochData", "Volumes"})
EmittedByPool ==
    In("pool", {"DeepBurned", "ReferralClaimed", "BookParamsUpdated", "PoolCreated",
                "ReferralFeeEvent"})
EmittedByMarginManager ==
    In("margin_manager", {"DepositCollateralEvent", "WithdrawCollateralEvent",
                          "LoanBorrowedEvent", "LiquidationEvent",
                          "MarginManagerCreatedEvent", "LoanRepaidEvent"})
EmittedByMarginPool ==
    In("margin_pool", {"MarginPoolCreated", "DeepbookPoolUpdated", "InterestParamsUpdated",
                       "MarginPoolConfigUpdated", "SupplierCapMinted", "AssetSupplied",
                       "AssetWithdrawn", "SupplyReferralMinted", "MaintainerFeesWithdrawn",
                       "ProtocolFeesWithdrawn"})
EmittedByMarginRegistry ==
    In("margin_registry", {"MaintainerCapUpdated", "DeepbookPoolRegistered",
                           "DeepbookPoolUpdated", "DeepbookPoolConfigUpdated",
                           "PauseCapUpdated", "PriceToleranceUpdated", "MaxPriceAgeUpdated",
                           "CurrentPriceUpdated"})
EmittedByProtocolFees ==
    In("protocol_fees", {"ProtocolFeesIncreasedEvent", "ReferralFeesClaimedEvent"})
EmittedByTpsl ==
    In("tpsl", {"ConditionalOrderAdded", "ConditionalOrderCancelled",
                "ConditionalOrderExecuted", "ConditionalOrderInsufficientFunds",
                "ConditionalOrderPriceOutOfBounds"})

EmittedByCore ==
    UNION {EmittedByBalanceManager, EmittedByOrder, EmittedByOrderInfo, EmittedByVault,
           EmittedByDeepPrice, EmittedByState, EmittedByEwma, EmittedByGovernance,
           EmittedByHistory, EmittedByPool}
EmittedByMargin ==
    UNION {EmittedByMarginManager, EmittedByMarginPool, EmittedByMarginRegistry,
           EmittedByProtocolFees, EmittedByTpsl}

-----------------------------------------------------------------------------
(* Fields for the events whose handler computes with them. *)
SomeData ==
    [order_id |-> 1, placed_quantity |-> 1, previous_quantity |-> 2, new_quantity |-> 1,
     filled_quantity |-> 0, original_quantity |-> 2, canceled_quantity |-> 1,
     asset |-> "base", price |-> 1, base_price |-> 1, withdraw_base_asset |-> TRUE,
     conditional_order_id |-> 1, expire_timestamp |-> 1]

Carrying(package, type) ==
    [digest |-> 1, commands |-> <<package>>, inputs |-> <<>>,
     events |-> <<[package |-> package, type |-> type, ok |-> TRUE, pool |-> NULL,
                   time |-> 1, data |-> SomeData]>>]

AnyPackage == UNION {get_core_package_addresses(c) \cup get_margin_package_addresses(c) :
                        c \in Configs}

Init ==
    /\ config \in Configs
    /\ tx \in {Carrying(p, t) : p \in AnyPackage, t \in EmittedByCore \cup EmittedByMargin}
    /\ homes = <<>>

(* Every pipeline looks at the checkpoint with the transaction. *)
Index ==
    /\ homes = <<>>
    /\ homes' = [h \in AllHandlers |->
                    process(h, 1, [ts |-> 1, transactions |-> <<tx>>], config)]
    /\ UNCHANGED <<config, tx>>

Spec == Init /\ [][Index]_vars
-----------------------------------------------------------------------------
TheEvent == tx.events[1]

(* The package an event of the contracts comes from. *)
ComesFromUs ==
    \/ TheEvent.type \in EmittedByCore
          /\ TheEvent.package \in get_core_package_addresses(config) \ Unparsable
    \/ TheEvent.type \in EmittedByMargin
          /\ TheEvent.package \in get_margin_package_addresses(config) \ Unparsable

(* An event that the contracts emit and the indexer has a struct for is     *)
(* stored once, in one table, whatever the environment; from another        *)
(* package it is stored nowhere (the MODULE and NAME of each struct, the    *)
(* module lists of lib.rs, one handler for each struct).                    *)
OneHome ==
    homes # <<>> =>
        LET takers == {h \in AllHandlers : homes[h] # {}} IN
        IF TheEvent.type \in DecodedEvents /\ ComesFromUs
        THEN Cardinality(takers) = 1 /\ \A h \in takers : Cardinality(homes[h]) = 1
        ELSE takers = {}

(* The rebates pipeline is there for the event that claiming a rebate       *)
(* emits (claim_rebates in state.move, rebates_handler.rs): a claim leaves  *)
(* a row.                                                                   *)
ClaimsAreIndexed ==
    homes # <<>> /\ TheEvent.type \in EmittedByClaimRebates /\ ComesFromUs
        => homes[RebatesHandler] # {}
=============================================================================
